---- MODULE Spec2Model ----
(***************************************************************************)
(* A model of src/models/blocks.py (KPConv-Triplane): the neighbor/shadow  *)
(* utilities (gather, closest_pool, max_pool, global_average), the block   *)
(* factory block_decider, and the forward passes of the two convolution    *)
(* operators KPConv and TriplaneConv.                                      *)
(*                                                                         *)
(* Tensors are sequences (rows) of sequences; indices stored in index      *)
(* tensors are 0-based as in the source, so row i of x is x[i + 1].        *)
(* Coordinates and features are integers.  Real-valued quantities          *)
(* (influence weights, modulations) are fixed-point numbers with unit      *)
(* FixedOne.                                                               *)
(***************************************************************************)
EXTENDS Integers, Sequences, FiniteSets, TLC

VARIABLES
    self,   \* the operator object of the call (its options, parameters, scratch fields)
    call,   \* the call under way: the function or method and its arguments
    ret,    \* its outcome: nothing yet, a returned value, or a raised error
    log     \* the lines printed so far

vars == <<self, call, ret, log>>

(***************************************************************************)
(* Bounds of the model.                                                    *)
(***************************************************************************)
\* the most rows a feature matrix / support-point set holds
MaxPts == 2
\* the widest neighbor (or pooling) table
MaxK == 2

(***************************************************************************)
(* Generic helpers.                                                        *)
(***************************************************************************)
NoObject == [class |-> "none"]
NoReturn == [kind |-> "none"]
Return(v) == [kind |-> "return", val |-> v]
Raise(e) == [kind |-> "raise", err |-> e]

RECURSIVE SumSeq(_)
SumSeq(s) == IF s = <<>> THEN 0 ELSE s[1] + SumSeq(Tail(s))

SetMax(S) == CHOOSE m \in S : \A v \in S : v <= m

\* all sequences over S of length exactly n
SeqsOfLen(S, n) == [1..n -> S]

\* t itself, computed once: comparing a tensor makes TLC evaluate it entry by
\* entry and keep the result
Eval(t) == IF t = t THEN t ELSE t

\* the entries of a 2-D index tensor
Entries(inds) == {inds[i][j] : i \in DOMAIN inds, j \in 1..Len(inds[1])}

(***************************************************************************)
(* Simple functions  (blocks.py 38-136)                                    *)
(***************************************************************************)

\* the appended row a copy of the first feature row
cat_first_row(x) == Append(x, x[1])

\* torch.cat((x, torch.zeros_like(x[:1, :])), 0): one all-zero row appended
cat_zero_row(x) == Append(x, [c \in 1..Len(x[1]) |-> 0])

\* torch.gather / advanced indexing along dimension 0 accepts index i of a
\* tensor of n rows iff 0 <= i < n (x.gather never wraps a negative index).
InBounds(n, idx) == \A i \in idx : 0 <= i /\ i < n

\* gather(x, idx), method 2, for a 1-D index tensor: idx is expanded along the
\* feature dimension and x.gather(0, idx) picks out[i][c] = x[idx[i][c]][c].
gather_rows(x, idx) ==
    LET d == Len(x[1])
        idxe == [i \in 1..Len(idx) |-> [c \in 1..d |-> idx[i]]]
    IN  [i \in 1..Len(idx) |-> [c \in 1..d |-> x[idxe[i][c] + 1][c]]]

\* gather(x, idx), method 2, for a 2-D index tensor [n2, ni]: x is expanded to
\* [N, ni, d], idx to [n2, ni, d], and out[i][j][c] = x[idx[i][j][c]][j][c].
gather(x, idx) ==
    LET d == Len(x[1])
        ni == Len(idx[1])
        xe == [r \in 1..Len(x) |-> [j \in 1..ni |-> x[r]]]
        idxe == [i \in 1..Len(idx) |-> [j \in 1..ni |-> [c \in 1..d |-> idx[i][j]]]]
    IN  [i \in 1..Len(idx) |->
            [j \in 1..ni |-> [c \in 1..d |-> xe[idxe[i][j][c] + 1][j][c]]]]

\* An index tensor of any number of dimensions: its shape and its entries by
\* position (a position is a sequence of 1-based coordinates; the 0-dim
\* tensor has the one position <<>>).
Positions(shape) ==
    {p \in [1..Len(shape) -> 1..SetMax({shape[i] : i \in 1..Len(shape)} \cup {1})] :
        \A i \in 1..Len(shape) : p[i] <= shape[i]}

Tensor(shape, at) == [shape |-> shape, at |-> at]

\* the index range of a dimension of n rows: x[idx] wraps a negative index
\* (-n..-1), x.gather(0, idx) does not
WrapIndex(n, i) == IF i < 0 THEN i + n ELSE i
InWrapBounds(n, idx) == \A i \in idx : -n <= i /\ i < n

\* method 0: x[idx]
gather_method0(x, idx) ==
    LET shape == idx.shape \o <<Len(x[1])>>
        m == Len(idx.shape)
    IN  IF ~InWrapBounds(Len(x), {idx.at[p] : p \in Positions(idx.shape)})
        THEN Raise("IndexError")
        ELSE Return(Tensor(shape,
                 [q \in Positions(shape) |->
                     x[WrapIndex(Len(x), idx.at[SubSeq(q, 1, m)]) + 1][q[m + 1]]]))

\* method 1: x.unsqueeze(1).expand(-1, idx.shape[-1], -1), then
\* idx.unsqueeze(2).expand(-1, -1, x.shape[-1]) and x.gather(0, idx); the
\* unsqueeze / expand pair fits a 2-D idx only
gather_method1(x, idx) ==
    LET shape == idx.shape \o <<Len(x[1])>>
    IN  IF Len(idx.shape) < 2 THEN Raise("IndexError")
        ELSE IF Len(idx.shape) > 2 THEN Raise("RuntimeError")
        ELSE IF ~InBounds(Len(x), {idx.at[p] : p \in Positions(idx.shape)})
        THEN Raise("RuntimeError")
        ELSE Return(Tensor(shape,
                 [q \in Positions(shape) |-> x[idx.at[SubSeq(q, 1, 2)] + 1][q[3]]]))

\* method 2: x is expanded over the dimensions idx.size()[1:], idx over the
\* dimensions x.size()[n:] with n = len(idx.size()), then x.gather(0, idx):
\* out[q] = x[idx[q]][q[2:]]
gather_method2(x, idx) ==
    LET n == Len(idx.shape)
        xe_size == IF n = 0 THEN <<Len(x), Len(x[1])>>
                   ELSE <<Len(x)>> \o Tail(idx.shape) \o <<Len(x[1])>>
        xe(q) == x[q[1]][q[Len(q)]]
        idxe_size == idx.shape \o SubSeq(xe_size, n + 1, Len(xe_size))
        idxe(q) == idx.at[SubSeq(q, 1, n)]
    IN  IF ~InBounds(Len(x), {idx.at[p] : p \in Positions(idx.shape)})
        THEN Raise("RuntimeError")
        ELSE Return(Tensor(idxe_size,
                 [q \in Positions(idxe_size) |-> xe(<<idxe(q) + 1>> \o Tail(q))]))

\* gather with a method outside 0, 1, 2 served by method 2
gather_any_method(x, idx, method) ==
    IF method = 0 THEN gather_method0(x, idx)
    ELSE IF method = 1 THEN gather_method1(x, idx)
    ELSE gather_method2(x, idx)

\* gather(x, idx, method)  (blocks.py 38-69), x of shape [N, D]
gather_dispatch(x, idx, method) ==
    IF method = 0 THEN gather_method0(x, idx)
    ELSE IF method = 1 THEN gather_method1(x, idx)
    ELSE IF method = 2 THEN gather_method2(x, idx)
    ELSE Raise("ValueError")

\* closest_pool reading the last column of inds instead of the first
closest_pool_last_column(x, inds) ==
    LET xs == cat_zero_row(x)
        last == [i \in 1..Len(inds) |-> inds[i][Len(inds[i])]]
    IN  Return(gather_rows(xs, last))

\* closest_pool(x, inds): the appended zero row, then gather(x, inds[:, 0])
closest_pool(x, inds) ==
    LET xs == cat_zero_row(x)
        first == [i \in 1..Len(inds) |-> inds[i][1]]
    IN  IF InBounds(Len(xs), {first[i] : i \in 1..Len(first)})
        THEN Return(gather_rows(xs, first))
        ELSE Raise("RuntimeError")

\* torch.max(pool_features, 1): the maximum over the columns, per channel
max_dim1(t) ==
    [i \in 1..Len(t) |->
        [c \in 1..Len(t[i][1]) |-> SetMax({t[i][j][c] : j \in 1..Len(t[i])})]]

\* max_pool(x, inds)
max_pool(x, inds) ==
    LET xs == cat_zero_row(x)
    IN  IF InBounds(Len(xs), Entries(inds))
        THEN Return(max_dim1(gather(xs, inds)))
        ELSE Raise("RuntimeError")

\* x[i0:i0 + length]: a Python slice, clipped to the rows x has
Slice(x, i0, i1) ==
    LET hi == IF i1 < Len(x) THEN i1 ELSE Len(x)
    IN  IF hi <= i0 THEN <<>> ELSE [r \in 1..(hi - i0) |-> x[i0 + r]]

\* torch.mean(rows, dim=0), kept exact: the channel sums and the row count
\* (count 0 is the NaN row torch returns for an empty slice)
mean_dim0(rows, d) ==
    [sum |-> [c \in 1..d |-> SumSeq([r \in 1..Len(rows) |-> rows[r][c]])],
     cnt |-> Len(rows)]

\* the loop of global_average from cloud b on, i0 the running offset
RECURSIVE global_average_loop(_, _, _, _, _)
global_average_loop(x, batch_lengths, b, i0, averaged_features) ==
    IF b > Len(batch_lengths) THEN averaged_features
    ELSE LET length == batch_lengths[b]
         IN  global_average_loop(x, batch_lengths, b + 1, i0 + length,
                 Append(averaged_features,
                        mean_dim0(Slice(x, i0, i0 + length), Len(x[1]))))

\* global_average with the running offset i0 never advanced: every cloud is
\* averaged from row 0
global_average_from_zero(x, batch_lengths) ==
    Return([b \in 1..Len(batch_lengths) |->
               mean_dim0(Slice(x, 0, batch_lengths[b]), Len(x[1]))])

\* global_average(x, batch_lengths); torch.stack of an empty list raises
global_average(x, batch_lengths) ==
    IF batch_lengths = <<>> THEN Raise("RuntimeError")
    ELSE Return(global_average_loop(x, batch_lengths, 1, 0, <<>>))

(***************************************************************************)
(* The block factory  (blocks.py 674-714)                                  *)
(***************************************************************************)
SimpleNames ==
    {"simple", "simple_deformable", "simple_invariant", "simple_equivariant",
     "simple_strided", "simple_deformable_strided", "simple_invariant_strided",
     "simple_equivariant_strided"}

ResnetNames ==
    {"resnetb", "resnetb_invariant", "resnetb_equivariant", "resnetb_deformable",
     "resnetb_strided", "resnetb_deformable_strided", "resnetb_equivariant_strided",
     "resnetb_invariant_strided"}

\* the object each constructor call of block_decider returns
UnaryBlock(in_dim, out_dim) ==
    [class |-> "UnaryBlock", in_dim |-> in_dim, out_dim |-> out_dim]
SimpleBlock(block_name, in_dim, out_dim, layer_ind) ==
    [class |-> "SimpleBlock", block_name |-> block_name, layer_ind |-> layer_ind,
     in_dim |-> in_dim, out_dim |-> out_dim]
ResnetBottleneckBlock(block_name, in_dim, out_dim, layer_ind) ==
    [class |-> "ResnetBottleneckBlock", block_name |-> block_name,
     layer_ind |-> layer_ind, in_dim |-> in_dim, out_dim |-> out_dim]
MaxPoolBlock(layer_ind) == [class |-> "MaxPoolBlock", layer_ind |-> layer_ind]
GlobalAverageBlock == [class |-> "GlobalAverageBlock"]
NearestUpsampleBlock(layer_ind) ==
    [class |-> "NearestUpsampleBlock", layer_ind |-> layer_ind]

\* block_decider without its 'max_pool_wide' spelling
block_decider_one_max_pool(block_name, in_dim, out_dim, layer_ind) ==
    IF block_name = "unary" THEN Return(UnaryBlock(in_dim, out_dim))
    ELSE IF block_name \in SimpleNames
    THEN Return(SimpleBlock(block_name, in_dim, out_dim, layer_ind))
    ELSE IF block_name \in ResnetNames
    THEN Return(ResnetBottleneckBlock(block_name, in_dim, out_dim, layer_ind))
    ELSE IF block_name = "max_pool" THEN Return(MaxPoolBlock(layer_ind))
    ELSE IF block_name = "global_average" THEN Return(GlobalAverageBlock)
    ELSE IF block_name = "nearest_upsample" THEN Return(NearestUpsampleBlock(layer_ind))
    ELSE Raise("ValueError")

block_decider(block_name, in_dim, out_dim, layer_ind) ==
    IF block_name = "unary" THEN Return(UnaryBlock(in_dim, out_dim))
    ELSE IF block_name \in SimpleNames
    THEN Return(SimpleBlock(block_name, in_dim, out_dim, layer_ind))
    ELSE IF block_name \in ResnetNames
    THEN Return(ResnetBottleneckBlock(block_name, in_dim, out_dim, layer_ind))
    ELSE IF block_name = "max_pool" \/ block_name = "max_pool_wide"
    THEN Return(MaxPoolBlock(layer_ind))
    ELSE IF block_name = "global_average" THEN Return(GlobalAverageBlock)
    ELSE IF block_name = "nearest_upsample" THEN Return(NearestUpsampleBlock(layer_ind))
    ELSE Raise("ValueError")

(***************************************************************************)
(* Numbers of the convolution operators.                                   *)
(***************************************************************************)
\* the unit of fixed-point reals (influence weights, modulations)
FixedOne == 10 * 10

\* the coordinate given to the appended shadow support point: `+ 1e6' in the
\* source, scaled to the model's coordinate range (real points lie in -3..3)
ShadowCoord == 1000
ShadowPoint == <<ShadowCoord, ShadowCoord, ShadowCoord>>

\* self.K = 10: the number of kernel points, whatever kernel_size is passed
HardCodedK == 10

\* self.layer_ind2neighbor
layer_ind2neighbor == <<28, 32, 41, 40, 36>>

\* self.baseGridSize
baseGridSize == 128

RECURSIVE Pow2(_)
Pow2(e) == IF e <= 0 THEN 1 ELSE 2 * Pow2(e - 1)

\* self.neiGridSize = int(self.baseGridSize / (2**layer_ind)) with LoDs True:
\* 2**layer_ind is a fraction for a negative layer_ind, and int() drops the
\* fraction of the quotient
neiGridSize(layer_ind) ==
    IF layer_ind >= 0 THEN baseGridSize \div Pow2(layer_ind)
    ELSE baseGridSize * Pow2(-layer_ind)

\* the filler of torch.full(..., -1)
PadFiller == <<-1, -1, -1>>

Sub3(a, b) == <<a[1] - b[1], a[2] - b[2], a[3] - b[3]>>
Add3(a, b) == <<a[1] + b[1], a[2] + b[2], a[3] + b[3]>>
SqNorm(a) == a[1] * a[1] + a[2] * a[2] + a[3] * a[3]
Abs(v) == IF v < 0 THEN -v ELSE v

\* the floor of the square root
ISqrt(v) == CHOOSE r \in 0..v : r * r <= v /\ (r + 1) * (r + 1) > v

(***************************************************************************)
(* External collaborators, modelled at their interface.                    *)
(***************************************************************************)
\* kernels.kernel_points.load_kernels: K canonical offsets, the first one the
\* center (fixed = 'center')
KernelCatalogue ==
    <<<<0, 0, 0>>, <<2, 0, 0>>, <<-2, 0, 0>>, <<0, 2, 0>>, <<0, -2, 0>>,
      <<0, 0, 2>>, <<0, 0, -2>>, <<1, 1, 1>>, <<-1, -1, 1>>, <<1, -1, -1>>,
      <<-1, 1, -1>>, <<1, 1, -1>>, <<-1, 1, 1>>, <<1, -1, 1>>, <<-1, -1, -1>>>>
load_kernels(K) == [m \in 1..K |-> KernelCatalogue[m]]

\* F.grid_sample(plane, (u, v) / r, align_corners=True) of a learned plane
\* that is bilinear over the whole grid: bilinear interpolation returns the
\* plane's own value inside [-1, 1]^2 and the zero padding outside.  The
\* value carries the denominator r * r.
grid_sample(theta, plane, u, v, r) ==
    IF Abs(u) > r \/ Abs(v) > r THEN 0
    ELSE theta.g * (plane * r * r + u * r + 2 * v * r + u * v)

\* tensor_field(xyz, nei_plane, mlp_map) at one point: the three planes are
\* sampled at the coordinate pairs matMode = [[0,1],[0,2],[1,2]] and mapped
\* (Mlps, here one linear layer) to a cin x cout kernel.
tensor_field(theta, xyz, r, cin, cout) ==
    LET s == grid_sample(theta, 1, xyz[1], xyz[2], r)
             + grid_sample(theta, 2, xyz[1], xyz[3], r)
             + grid_sample(theta, 3, xyz[2], xyz[3], r)
        e == Eval(<<s>>)[1]
    IN  [i \in 1..cin |-> [o \in 1..cout |-> theta.b * r * r + (i + 2 * o) * e]]

(***************************************************************************)
(* KPConv  (blocks.py 352-661)                                             *)
(***************************************************************************)
\* the parameter sets of one operator: the learned values a trained operator
\* may hold.  gen: the weights of kernel_points_generator; bank: self.weights;
\* theta: the factor planes and mlp_map; bias: offset_bias.
ParamSets ==
    [gen : {"bias", "follow", "shift"}, bank : {1, 2}, theta : {[b |-> 1, g |-> 0], [b |-> 0, g |-> 1]},
     bias : {0, FixedOne}]

\* KPConv.__init__ of a non-deformable operator
KPConv_init_rigid(kernel_size, in_channels, out_channels, KP_extent, layer_ind, KP_influence, aggregation_mode, params) ==
    [class |-> "KPConv",
     kernel_size |-> kernel_size,
     K |-> HardCodedK,
     p_dim |-> 3,
     in_channels |-> in_channels,
     out_channels |-> out_channels,
     KP_extent |-> KP_extent,
     KP_influence |-> KP_influence,
     aggregation_mode |-> aggregation_mode,
     deformable |-> FALSE,
     modulated |-> FALSE,
     conv_method |-> "Triplanes",
     generative_kernel_points |-> TRUE,
     layer_ind |-> layer_ind,
     neiGridSize |-> neiGridSize(layer_ind),
     kernel_points_generator |-> params.gen,
     nei_plane |-> params.theta,
     weights |-> params.bank,
     kernel_points |-> load_kernels(HardCodedK),
     offset_dim |-> 0,
     offset_conv |-> NoObject,
     offset_bias |-> 0,
     min_d2 |-> <<>>,
     deformed_KP |-> <<>>,
     offset_features |-> <<>>]

\* KPConv.__init__: a deformable operator owns a non-deformable offset_conv
\* with the same options and offset_dim output channels
KPConv_init(kernel_size, in_channels, out_channels, KP_extent, layer_ind, KP_influence, aggregation_mode, deformable, modulated, params) ==
    LET base == KPConv_init_rigid(kernel_size, in_channels, out_channels, KP_extent,
                    layer_ind, KP_influence, aggregation_mode, params)
        offset_dim == IF modulated THEN (base.p_dim + 1) * base.K
                      ELSE base.p_dim * base.K
    IN  IF deformable
        THEN [base EXCEPT
                !.deformable = TRUE,
                !.modulated = modulated,
                !.offset_dim = offset_dim,
                !.offset_conv = KPConv_init_rigid(base.K, in_channels, offset_dim,
                                    KP_extent, layer_ind, KP_influence,
                                    aggregation_mode, params),
                !.offset_bias = params.bias]
        ELSE [base EXCEPT !.modulated = modulated]

\* KPConv(...): the constructor call.  self.layer_ind2neighbor[layer_ind] is
\* a list index: -5..4 are its valid values, any other raises IndexError
KPConv_new(kernel_size, in_channels, out_channels, KP_extent, layer_ind, KP_influence, aggregation_mode, deformable, modulated, params) ==
    IF layer_ind < -Len(layer_ind2neighbor) \/ layer_ind >= Len(layer_ind2neighbor)
    THEN Raise("IndexError")
    ELSE Return(KPConv_init(kernel_size, in_channels, out_channels, KP_extent, layer_ind,
                            KP_influence, aggregation_mode, deformable, modulated, params))

\* the two mode attributes __init__ sets in its body (blocks.py 388-389),
\* assigned on a built operator and on its offset_conv: forward reads them on
\* every call, and nothing but such an assignment reaches its 'Linear' and
\* fixed-kernel-point branches
set_mode(op, toggles) ==
    LET on(o) == [o EXCEPT !.conv_method = toggles.conv_method,
                           !.generative_kernel_points = toggles.generative_kernel_points]
    IN  IF op.deformable THEN [on(op) EXCEPT !.offset_conv = on(op.offset_conv)]
        ELSE on(op)

\* self.weights[k][i][o]
weight_bank(bank, k, i, o) == IF bank = 1 THEN 1 ELSE k + 2 * i - o

\* s_pts = torch.cat((s_pts, torch.zeros_like(s_pts[:1, :]) + 1e6), 0)
pad_support(s_pts) == Append(s_pts, ShadowPoint)

\* max = torch.max(neighb_inds); if max >= shape: print("wrong_dim: ...")
bounds_report(neighb_inds, shape) ==
    LET max == SetMax(Entries(neighb_inds))
    IN  IF max >= shape THEN <<[index |-> max, shape |-> shape]>> ELSE <<>>

\* s_pts[neighb_inds, :] - q_pts.unsqueeze(1)
center_neighbors(s_pts, neighb_inds, q_pts) ==
    [n \in 1..Len(neighb_inds) |->
        [j \in 1..Len(neighb_inds[n]) |-> Sub3(s_pts[neighb_inds[n][j] + 1], q_pts[n])]]

\* torch.cat([neighbors, torch.full((N, L - k, 3), -1)], dim=1) for one point
pad_neighbors(row, L) ==
    [j \in 1..L |-> IF j <= Len(row) THEN row[j] ELSE PadFiller]

\* self.kernel_points_generator(padded.view(N, -1)).view(N, -1, 3) for one
\* point: a linear map of the padded neighbor offsets, under three settings of
\* its weights: the bias alone, kernel point m read from slot m, and the whole
\* layout moved to slot 1
kernel_points_generator(gen, padded, kernel_points) ==
    [m \in 1..Len(kernel_points) |->
        IF gen = "follow" THEN padded[m]
        ELSE IF gen = "shift" THEN Add3(padded[1], kernel_points[m])
        ELSE kernel_points[m]]

\* torch.sum((neighbors.unsqueeze(2) - deformed_K_points) ** 2, dim=3)
square_distances(neighbors, K_points) ==
    [n \in 1..Len(neighbors) |->
        [j \in 1..Len(neighbors[n]) |->
            [m \in 1..Len(K_points[n]) |-> SqNorm(Sub3(neighbors[n][j], K_points[n][m]))]]]

\* torch.any(sq_distances < self.KP_extent ** 2, dim=2).type(torch.int32)
in_range_mask(sq_distances, KP_extent) ==
    [n \in 1..Len(sq_distances) |->
        [j \in 1..Len(sq_distances[n]) |->
            IF \E m \in 1..Len(sq_distances[n][j]) :
                   sq_distances[n][j][m] < KP_extent * KP_extent
            THEN 1 ELSE 0]]

\* torch.max(torch.sum(in_range, dim=1))
new_max_neighb(in_range) == SetMax({SumSeq(in_range[n]) : n \in 1..Len(in_range)})

\* torch.topk(row, m): the slots of the m largest entries, largest first; the
\* order among equal entries is whatever the implementation leaves
topk_orders(row, m) ==
    {o \in [1..m -> 1..Len(row)] :
        /\ \A a, b \in 1..m : a < b => (o[a] # o[b] /\ row[o[a]] >= row[o[b]])
        /\ \A u \in 1..Len(row) :
               (\A a \in 1..m : o[a] # u) => \A a \in 1..m : row[o[a]] >= row[u]}

\* the re-packing without its last two lines: discarded slots keep their index
repack_indices_no_remap(neighb_inds, in_range, neighb_row_inds, shadow_ind) ==
    [n \in 1..Len(neighb_inds) |->
        [a \in 1..Len(neighb_row_inds[n]) |-> neighb_inds[n][neighb_row_inds[n][a]]]]

\* new_neighb_inds = neighb_inds.gather(1, neighb_row_inds)
\* new_neighb_inds *= neighb_row_bool
\* new_neighb_inds -= (neighb_row_bool - 1) * int(s_pts.shape[0] - 1)
repack_indices(neighb_inds, in_range, neighb_row_inds, shadow_ind) ==
    [n \in 1..Len(neighb_inds) |->
        [a \in 1..Len(neighb_row_inds[n]) |->
            LET slot == neighb_row_inds[n][a]
                bool == in_range[n][slot]
            IN  neighb_inds[n][slot] * bool - (bool - 1) * shadow_ind]]

\* sq_distances.gather(1, neighb_row_inds expanded over the kernel points)
repack_distances(sq_distances, neighb_row_inds) ==
    [n \in 1..Len(sq_distances) |->
        [a \in 1..Len(neighb_row_inds[n]) |-> sq_distances[n][neighb_row_inds[n][a]]]]

\* self.min_d2, _ = torch.min(sq_distances, dim=1): over the neighbors
min_dim1(sq_distances) ==
    [n \in 1..Len(sq_distances) |->
        [m \in 1..Len(sq_distances[n][1]) |->
            -SetMax({-sq_distances[n][j][m] : j \in 1..Len(sq_distances[n])})]]

\* torch.clamp(1 - torch.sqrt(sq_distances) / self.KP_extent, min=0.0)
linear_influence(d2, KP_extent) ==
    IF d2 >= KP_extent * KP_extent THEN 0
    ELSE LET w == FixedOne - (ISqrt(d2 * FixedOne * FixedOne) \div KP_extent)
         IN  IF w < 0 THEN 0 ELSE w

\* the linear influence without the clamp
linear_weights_unclamped(sq_distances, KP_extent) ==
    [i \in 1..Len(sq_distances) |->
        FixedOne - (ISqrt(sq_distances[i] * FixedOne * FixedOne) \div KP_extent)]

\* the same expression applied to a tensor of squared distances, every step
\* carried out: sqrt, division by the extent, 1 - ..., clamp(min=0.0)
linear_weights(sq_distances, KP_extent) ==
    [i \in 1..Len(sq_distances) |->
        SetMax({0, FixedOne - (ISqrt(sq_distances[i] * FixedOne * FixedOne) \div KP_extent)})]

\* radius_gaussian(sq_r, sig) = exp(-sq_r / (2 sig^2 + eps)), sig = 0.3 * 2:
\* 1, 0.249, 0.062, 0.016, 0.004, ... in fixed point
radius_gaussian(d2) ==
    LET table == <<100, 24, 6, 1>>
    IN  IF d2 < Len(table) THEN table[d2 + 1] ELSE 0

\* the dispatch on KP_influence with a fourth value let through
InfluenceKinds_and_quadratic == {"constant", "linear", "gaussian", "quadratic"}

InfluenceKinds == {"constant", "linear", "gaussian"}

\* the influence of one kernel point on one neighbor
influence(KP_influence, d2, KP_extent) ==
    IF KP_influence = "constant" THEN FixedOne
    ELSE IF KP_influence = "linear" THEN linear_influence(d2, KP_extent)
    ELSE radius_gaussian(d2)

\* torch.argmin(row): the first index of the least entry
argmin(row) ==
    CHOOSE m \in 1..Len(row) :
        /\ \A m2 \in 1..Len(row) : row[m] <= row[m2]
        /\ \A m2 \in 1..(m - 1) : row[m2] > row[m]

\* the aggregation stage with `closest' treated as `sum'
aggregate_weights_keep_all(aggregation_mode, KP_influence, sq_distances, KP_extent, K) ==
    [n \in 1..Len(sq_distances) |->
        [m \in 1..K |->
            [j \in 1..Len(sq_distances[n]) |->
                influence(KP_influence, sq_distances[n][j][m], KP_extent)]]]

\* all_weights [n][m][j] after the aggregation mode is applied
\* (`closest': multiplied by the one-hot of argmin over the kernel points)
aggregate_weights(aggregation_mode, KP_influence, sq_distances, KP_extent, K) ==
    [n \in 1..Len(sq_distances) |->
        [m \in 1..K |->
            [j \in 1..Len(sq_distances[n]) |->
                LET w == influence(KP_influence, sq_distances[n][j][m], KP_extent)
                IN  IF aggregation_mode = "closest"
                    THEN w * (IF argmin(sq_distances[n][j]) = m THEN 1 ELSE 0)
                    ELSE w]]]

\* torch.matmul(all_weights, neighb_x): [n][m][c]
apply_weights(all_weights, neighb_x, cin) ==
    [n \in 1..Len(all_weights) |->
        [m \in 1..Len(all_weights[n]) |->
            [c \in 1..cin |->
                SumSeq([j \in 1..Len(neighb_x[n]) |->
                            all_weights[n][m][j] * neighb_x[n][j][c]])]]]

\* 2 * torch.sigmoid(v), v in fixed point, by the nearest integer below
sigmoid2(v) ==
    LET table == <<4, 10, 24, 54, 100, 146, 176, 190, 196>>
        t == v \div FixedOne
    IN  IF t < -4 THEN 0 ELSE IF t > 4 THEN 2 * FixedOne ELSE table[t + 5]

\* What a forward pass leaves behind: how it ended (kind, err, out), what it
\* printed (log), whether the indexing s_pts[neighb_inds, :] was executed
\* (gathered), the scratch fields it assigned (min_d2, deformed_KP,
\* offset_features), and the intermediate tensors of the pass.  unit is the
\* number of fixed-point factors FixedOne the output carries.  generator_in
\* is the length of the flattened vector handed to kernel_points_generator
\* for one query point (0: the generator was not called).  events is the
\* order of the pass: the call and the end of an offset_conv and every
\* computation of kernel-point distances, each with the depth of the forward
\* call it belongs to (0 the called operator, 1 its offset_conv).
Outcome ==
    [kind |-> "raise", err |-> "", out |-> <<>>, unit |-> 0, log |-> <<>>,
     gathered |-> FALSE, nested |-> 0, neighbors |-> <<>>,
     min_d2 |-> <<>>, deformed_KP |-> <<>>, offset_features |-> <<>>,
     K_points |-> <<>>, sq_distances0 |-> <<>>, in_range |-> <<>>,
     new_neighb_inds |-> <<>>, sq_distances |-> <<>>, all_weights |-> <<>>,
     neighb_x |-> <<>>, weighted_features |-> <<>>, events |-> <<>>,
     generator_in |-> 0]

\* the kernel positions of every query point (blocks.py 561-573); the
\* generated ones replace the fixed ones
deformed_K_points(op, neighbors) ==
    [n \in 1..Len(neighbors) |->
        IF op.generative_kernel_points
        THEN kernel_points_generator(op.kernel_points_generator,
                 pad_neighbors(neighbors[n], layer_ind2neighbor[op.layer_ind + 1]),
                 op.kernel_points)
        ELSE op.kernel_points]

\* padded_neighbors.view(N, -1): the length of one row of the generator's input
generator_in_features(op, neighbors) ==
    IF op.generative_kernel_points
    THEN 3 * Len(pad_neighbors(neighbors[1], layer_ind2neighbor[op.layer_ind + 1]))
    ELSE 0

\* the last stage with the static weights of the first kernel point alone
kernel_outputs_first_kernel_point(op, q_pts, K_points, weighted_features) ==
    [n \in 1..Len(weighted_features) |->
        [o \in 1..op.out_channels |->
            SumSeq([i \in 1..op.in_channels |->
                weighted_features[n][1][i] * weight_bank(op.weights, 1, i, o)])]]

\* the last stage (blocks.py 649-661): the kernel of each kernel point comes
\* from the tensor field at deformed_K_points - q_pts (`Triplanes'), or is the
\* static self.weights[m] (`Linear'); the products are summed over m
kernel_outputs(op, q_pts, K_points, weighted_features) ==
    LET kernel == Eval([n \in 1..Len(weighted_features) |-> [m \in 1..op.K |->
                     tensor_field(op.nei_plane, Sub3(K_points[n][m], q_pts[n]), 1,
                                  op.in_channels, op.out_channels)]])
    IN  [n \in 1..Len(weighted_features) |->
            [o \in 1..op.out_channels |->
                SumSeq([m \in 1..op.K |->
                    SumSeq([i \in 1..op.in_channels |->
                        weighted_features[n][m][i] *
                            (IF op.conv_method = "Triplanes" THEN kernel[n][m][i][o]
                             ELSE weight_bank(op.weights, m, i, o))])])]]

\* KPConv.forward from `Deformed convolution' on (blocks.py 547-661) is a
\* chain of stages.  Every stage takes the operator, the arguments a of the
\* pass (sp the padded support set, modulations of the offset stage or <<>>,
\* neighb_row_inds the order torch.topk returns) and the outcome t so far, and
\* hands the outcome with its own tensors filled in to the next stage.

\* weighted_features *= modulations.unsqueeze(2)
modulate(op, weighted_features, modulations) ==
    IF op.deformable /\ op.modulated
    THEN [n \in 1..Len(weighted_features) |-> [m \in 1..op.K |->
             [c \in 1..op.in_channels |-> weighted_features[n][m][c] * modulations[n][m]]]]
    ELSE weighted_features

\* blocks.py 649-661: the products with the kernels, summed
convolve_output(op, a, t) ==
    [t EXCEPT !.kind = "return",
              !.unit = IF op.deformable /\ op.modulated THEN 2 ELSE 1,
              !.out = Eval(kernel_outputs(op, a.q_pts, t.K_points, t.weighted_features))]

\* blocks.py 643-647: weighted_features, modulated
convolve_weigh(op, a, t) ==
    convolve_output(op, a,
        [t EXCEPT !.weighted_features =
            Eval(modulate(op, apply_weights(t.all_weights, t.neighb_x, op.in_channels),
                          a.modulations))])

\* blocks.py 609-640: the dispatch on KP_influence and aggregation_mode, the
\* influence weights and the gathered neighbor features
convolve_dispatch(op, a, t) ==
    IF op.KP_influence \notin InfluenceKinds
    THEN [t EXCEPT !.err = "ValueError"]
    ELSE IF op.aggregation_mode \notin {"closest", "sum"}
    THEN [t EXCEPT !.err = "ValueError"]
    ELSE convolve_weigh(op, a,
             [t EXCEPT !.all_weights =
                           Eval(aggregate_weights(op.aggregation_mode, op.KP_influence,
                                                  t.sq_distances, op.KP_extent, op.K)),
                       !.neighb_x = Eval(gather(cat_zero_row(a.x), t.new_neighb_inds))])

\* blocks.py 590-605: the re-packing to the reduced width
convolve_repack(op, a, t) ==
    convolve_dispatch(op, a,
        [t EXCEPT !.new_neighb_inds =
                      Eval(repack_indices(a.neighb_inds, t.in_range, a.neighb_row_inds,
                                          Len(a.sp) - 1)),
                  !.sq_distances = Eval(repack_distances(t.sq_distances0, a.neighb_row_inds))])

\* blocks.py 580-607: `if self.deformable: ... else: new_neighb_inds = neighb_inds'
convolve_range(op, a, t) ==
    IF op.deformable
    THEN convolve_repack(op, a,
             [t EXCEPT !.min_d2 = Eval(min_dim1(t.sq_distances0)),
                       !.in_range = Eval(in_range_mask(t.sq_distances0, op.KP_extent))])
    ELSE convolve_dispatch(op, a,
             [t EXCEPT !.new_neighb_inds = a.neighb_inds, !.sq_distances = t.sq_distances0])

\* blocks.py 574-578: the square distances of every neighbor to every kernel point
convolve_measure(op, a, t) ==
    convolve_range(op, a,
        [t EXCEPT !.sq_distances0 = Eval(square_distances(t.neighbors, t.K_points)),
                  !.events = Append(t.events, [ev |-> "distances", depth |-> 0])])

\* blocks.py 561-573: the kernel positions
convolve_place(op, a, t) ==
    convolve_measure(op, a,
        [t EXCEPT !.K_points = Eval(deformed_K_points(op, t.neighbors)),
                  !.generator_in = generator_in_features(op, t.neighbors)])

\* blocks.py 555-573: the indexing and what can fault before the distances
convolve_gather(op, a, t) ==
    \* neighbors = s_pts[neighb_inds, :] faults on an index past the padded set
    IF ~InBounds(Len(a.sp), Entries(a.neighb_inds))
    THEN [t EXCEPT !.err = "IndexError"]
    \* torch.full with a negative size
    ELSE IF /\ op.generative_kernel_points
            /\ Len(a.neighb_inds[1]) > layer_ind2neighbor[op.layer_ind + 1]
    THEN [t EXCEPT !.err = "RuntimeError"]
    \* fixed kernel points with offsets: deformed_K_points has six
    \* dimensions and neighb_inds.gather(1, neighb_row_inds) rejects the ranks
    ELSE IF op.deformable /\ ~op.generative_kernel_points
    THEN [t EXCEPT !.err = "RuntimeError", !.min_d2 = <<<<>>>>]
    ELSE convolve_place(op, a,
             [t EXCEPT !.neighbors = Eval(center_neighbors(a.sp, a.neighb_inds, a.q_pts))])

\* blocks.py 547-555: the shadow point, the bounds report, then the indexing
KPConv_convolve(op, q_pts, s_pts, neighb_inds, x, modulations, neighb_row_inds) ==
    convolve_gather(op,
        [q_pts |-> q_pts, sp |-> pad_support(s_pts), neighb_inds |-> neighb_inds,
         x |-> x, modulations |-> modulations, neighb_row_inds |-> neighb_row_inds],
        [Outcome EXCEPT !.log = bounds_report(neighb_inds, Len(s_pts) + 1),
                        !.gathered = TRUE])

\* the in-range mask a deformable pass computes before torch.topk
topk_mask(op, neighbors) ==
    in_range_mask(square_distances(neighbors, deformed_K_points(op, neighbors)),
                  op.KP_extent)

\* one order per row of the mask, each of new_max_neighb slots
topk_tables(in_range) ==
    {o \in [1..Len(in_range) ->
                [1..new_max_neighb(in_range) -> 1..Len(in_range[1])]] :
        \A n \in 1..Len(in_range) :
            o[n] \in topk_orders(in_range[n], new_max_neighb(in_range))}

\* the orders torch.topk may return in a pass (<<>> where it is not reached)
topk_choices(op, q_pts, s_pts, neighb_inds) ==
    IF /\ op.deformable /\ op.generative_kernel_points
       /\ InBounds(Len(s_pts) + 1, Entries(neighb_inds))
       /\ Len(neighb_inds[1]) <= layer_ind2neighbor[op.layer_ind + 1]
    THEN topk_tables(Eval(topk_mask(op,
             center_neighbors(pad_support(s_pts), neighb_inds, q_pts))))
    ELSE {<<>>}

\* self.offset_features = self.offset_conv(q_pts, s_pts, neighb_inds, x) + self.offset_bias
get_offset_features(op, out) ==
    [n \in 1..Len(out) |-> [c \in 1..op.offset_dim |-> out[n][c] + op.offset_bias]]

\* modulations = 2 * torch.sigmoid(self.offset_features[:, p_dim * K:]), or None
get_modulations(op, offset_features) ==
    IF op.modulated
    THEN [n \in 1..Len(offset_features) |-> [m \in 1..op.K |->
             sigmoid2(offset_features[n][op.p_dim * op.K + m])]]
    ELSE <<>>

\* self.deformed_KP = offsets + self.kernel_points, with
\* offsets = unscaled_offsets.view(-1, K, p_dim) * self.KP_extent
get_deformed_KP(op, offset_features) ==
    [n \in 1..Len(offset_features) |-> [m \in 1..op.K |-> [d \in 1..op.p_dim |->
        offset_features[n][(m - 1) * op.p_dim + d] * op.KP_extent
            + FixedOne * op.kernel_points[m][d]]]]

\* the events of a call self.offset_conv(q_pts, s_pts, neighb_inds, x): the
\* call with its arguments, what the sub-operator did, and how it ended
offset_events(q_pts, s_pts, neighb_inds, x, sub) ==
    <<[ev |-> "call", depth |-> 1,
       args |-> [q_pts |-> q_pts, s_pts |-> s_pts, neighb_inds |-> neighb_inds, x |-> x]]>>
    \o [i \in 1..Len(sub.events) |-> [sub.events[i] EXCEPT !.depth = @ + 1]]
    \o <<[ev |-> sub.kind, depth |-> 1]>>

\* the main pass placed before the offset stage
forward_trace_main_first(offset_stage, main_pass) == main_pass \o offset_stage

\* the order of a deformable pass: line 517 first, lines 548-661 after it
forward_trace(offset_stage, main_pass) == offset_stage \o main_pass

\* what a deformable pass returns: the outcome of its main pass, with the
\* scratch fields of the offset stage and the lines the offset_conv printed
forward_finish(main, sub, sub_events, offset_features, deformed_KP) ==
    [main EXCEPT !.offset_features = offset_features,
                 !.deformed_KP = deformed_KP,
                 !.log = sub.log \o main.log,
                 !.events = forward_trace(sub_events, main.events),
                 !.nested = sub.nested + 1]

\* blocks.py 519-566, then the main pass
forward_deformed(op, q_pts, s_pts, neighb_inds, x, neighb_row_inds, sub, offset_features) ==
    forward_finish(
        KPConv_convolve(op, q_pts, s_pts, neighb_inds, x,
                        Eval(get_modulations(op, offset_features)), neighb_row_inds),
        sub, offset_events(q_pts, s_pts, neighb_inds, x, sub),
        offset_features, Eval(get_deformed_KP(op, offset_features)))

\* blocks.py 514-517: an error of the offset_conv ends the pass
forward_offsets(op, q_pts, s_pts, neighb_inds, x, neighb_row_inds, sub) ==
    IF sub.kind = "raise"
    THEN [Outcome EXCEPT !.err = sub.err, !.log = sub.log,
                         !.gathered = sub.gathered, !.nested = sub.nested + 1,
                         !.events = forward_trace(
                                        offset_events(q_pts, s_pts, neighb_inds, x, sub), <<>>)]
    ELSE forward_deformed(op, q_pts, s_pts, neighb_inds, x, neighb_row_inds,
                          sub, Eval(get_offset_features(op, sub.out)))

\* KPConv.forward (blocks.py 505-661); self.offset_conv(...) is a forward
\* call of the sub-operator
RECURSIVE KPConv_forward(_, _, _, _, _, _)
KPConv_forward(op, q_pts, s_pts, neighb_inds, x, neighb_row_inds) ==
    IF op.deformable
    THEN forward_offsets(op, q_pts, s_pts, neighb_inds, x, neighb_row_inds,
             KPConv_forward(op.offset_conv, q_pts, s_pts, neighb_inds, x, <<>>))
    ELSE KPConv_convolve(op, q_pts, s_pts, neighb_inds, x, <<>>, <<>>)

(***************************************************************************)
(* TriplaneConv  (blocks.py 145-341)                                       *)
(***************************************************************************)
\* self.m = 8: the number of bases of the weight bank
WeightBankBases == 8

\* TriplaneConv.__init__; depth_wise and with_trick are set False there, so
\* forward runs direct_conv and mlp_map is built with cin * cout outputs
TriplaneConv_init(kernel_size, in_channels, out_channels, layer_ind, params) ==
    [class |-> "TriplaneConv",
     kernel_size |-> kernel_size,
     cin |-> in_channels,
     cout |-> out_channels,
     layer_ind |-> layer_ind,
     depth_wise |-> FALSE,
     with_trick |-> FALSE,
     m |-> WeightBankBases,
     mlp_map_out |-> in_channels * out_channels,
     matrice |-> params.bank,
     neiGridSize |-> neiGridSize(layer_ind),
     nei_plane |-> params.theta]

\* the output width of mlp_map that __init__ builds under self.with_trick:
\* Mlps(3 * n_comp, [self.cin])
mlp_map_out_with_trick(op) == op.cin

\* the scored mode: the operator __init__ builds with the flag of line 154
\* set (route "flag": mlp_map is the one of the with_trick branch), or a built
\* operator with the attribute assigned (route "attribute": mlp_map keeps its
\* cin * cout outputs)
set_trick(op, route) ==
    IF route = "flag"
    THEN [op EXCEPT !.with_trick = TRUE, !.mlp_map_out = mlp_map_out_with_trick(op)]
    ELSE [op EXCEPT !.with_trick = TRUE]

\* direct_conv: torch.einsum('nki,nkio->no', x[neighb_inds, :], kernel)
direct_conv(op, x, neighb_inds, xyz, neighb_r) ==
    [n \in 1..Len(neighb_inds) |->
        [o \in 1..op.cout |->
            SumSeq([j \in 1..Len(neighb_inds[n]) |->
                LET kernel == tensor_field(op.nei_plane, xyz[n][j], neighb_r,
                                           op.cin, op.cout)
                IN  SumSeq([i \in 1..op.cin |->
                        x[neighb_inds[n][j] + 1][i] * kernel[i][o]])])]]

\* the sum of the three plane samples at one point
plane_samples(theta, xyz, r) ==
    grid_sample(theta, 1, xyz[1], xyz[2], r)
        + grid_sample(theta, 2, xyz[1], xyz[3], r)
        + grid_sample(theta, 3, xyz[2], xyz[3], r)

\* score = self.tensor_field(xyz, ...).view(N, k, -1): per (point, neighbor)
\* pair, as many values as mlp_map has outputs
score_field(op, xyz, neighb_r) ==
    [n \in 1..Len(xyz) |-> [j \in 1..Len(xyz[n]) |->
        [c \in 1..op.mlp_map_out |->
            op.nei_plane.b * neighb_r * neighb_r
                + c * plane_samples(op.nei_plane, xyz[n][j], neighb_r)]]]

\* utils.TriplaneConv_util.feat_trans_pointnet(x, self.matrice, m): x times the
\* (cin, m * cout) weight bank, viewed as (rows, m, cout)
feat_trans_pointnet(x, op) ==
    [p \in 1..Len(x) |-> [b \in 1..op.m |-> [o \in 1..op.cout |->
        SumSeq([i \in 1..op.cin |-> x[p][i] * weight_bank(op.matrice, b, i, o)])]]]

\* torch.einsum('nmo,nkm->no', x, score): the two extents of m are equal,
\* or one of them is 1 and is broadcast
einsum_nmo_nkm(x, score, m) ==
    [n \in 1..Len(x) |-> [o \in 1..Len(x[n][1]) |->
        SumSeq([b \in 1..m |->
            SumSeq([j \in 1..Len(score[n]) |->
                x[n][b][o] * score[n][j][IF Len(score[n][j]) = 1 THEN 1 ELSE b]])])]]

\* conv_with_trick with k_cin False (blocks.py 288-306): the features of the
\* first neighbor of every point, transformed by the weight bank, contracted
\* with the scores.  The scores are kept in all_weights, the transformed
\* features in weighted_features.
conv_with_trick(op, x, neighb_inds, xyz, neighb_r, t) ==
    IF Len(x[1]) # op.cin
    THEN [t EXCEPT !.err = "RuntimeError"]
    ELSE IF op.mlp_map_out # op.m /\ op.mlp_map_out # 1
    THEN [t EXCEPT !.err = "RuntimeError",
                   !.all_weights = Eval(score_field(op, xyz, neighb_r))]
    ELSE [t EXCEPT !.kind = "return",
                   !.all_weights = Eval(score_field(op, xyz, neighb_r)),
                   !.weighted_features =
                       Eval([n \in 1..Len(neighb_inds) |->
                                feat_trans_pointnet(x, op)[neighb_inds[n][1] + 1]]),
                   !.out = einsum_nmo_nkm(
                               [n \in 1..Len(neighb_inds) |->
                                   feat_trans_pointnet(x, op)[neighb_inds[n][1] + 1]],
                               score_field(op, xyz, neighb_r), op.m)]

\* TriplaneConv.forward (blocks.py 320-341); xyz / neighb_r is kept as the
\* numerator xyz with the denominator neighb_r
TriplaneConv_forward(op, q_pts, s_pts, neighb_inds, neighb_r, x) ==
    LET sp == pad_support(s_pts)
        xs == cat_zero_row(x)
        xyz == center_neighbors(sp, neighb_inds, q_pts)
    IN  \* xyz = s_pts[neighb_inds, :]: no check comes before the indexing
        IF ~InBounds(Len(sp), Entries(neighb_inds))
        THEN [Outcome EXCEPT !.err = "IndexError", !.gathered = TRUE]
        ELSE IF op.with_trick
        THEN conv_with_trick(op, xs, neighb_inds, xyz, neighb_r,
                 [Outcome EXCEPT !.gathered = TRUE, !.sq_distances0 = xyz])
        ELSE [Outcome EXCEPT !.kind = "return", !.gathered = TRUE, !.unit = 0,
                             !.sq_distances0 = xyz,
                             !.out = direct_conv(op, xs, neighb_inds, xyz, neighb_r)]

(***************************************************************************)
(* Inputs of the convolution calls.                                        *)
(***************************************************************************)
\* support points, query points and feature rows, by position in the cloud
SupportCatalogue == <<<<1, 0, 0>>, <<0, 4, 0>>, <<0, 0, -1>>, <<3, 3, 0>>>>
QueryCatalogue == <<<<0, 0, 0>>, <<1, 0, 0>>>>
FeatureCatalogue ==
    <<<<<<1, 2>>, <<3, -1>>, <<0, 4>>, <<2, 2>>>>,
      <<<<-2, 1>>, <<5, 0>>, <<1, 1>>, <<0, -3>>>>>>

\* a row of a neighbor table over n support points, as the neighbor search
\* writes it: distinct real indices first, then the shadow index n
NeighborRows(n, k) ==
    {r \in SeqsOfLen(0..n, k) :
        /\ \A a, b \in 1..k : (a < b /\ r[a] = r[b]) => r[a] = n
        /\ \A a \in 1..(k - 1) : r[a] = n => r[a + 1] = n}

\* a row of corrupt upstream data: its first index is past the shadow index
CorruptRows(n, k) ==
    {r \in SeqsOfLen(0..(n + 1), k) :
        r[1] = n + 1 /\ \E v \in NeighborRows(n, k) : \A a \in 2..k : r[a] = v[a]}

\* neighbor tables of N rows; only the first row may be corrupt
NeighborTables(n, k, N) ==
    {t \in SeqsOfLen(NeighborRows(n, k) \cup CorruptRows(n, k), N) :
        \A i \in 2..N : t[i] \in NeighborRows(n, k)}

\* the geometry of one call: n support points, N query points, width k
Geometries ==
    UNION {
        {[q_pts |-> [i \in 1..N |-> QueryCatalogue[i]],
          s_pts |-> [i \in 1..n |-> SupportCatalogue[i]],
          neighb_inds |-> t,
          x |-> [i \in 1..n |-> FeatureCatalogue[v][i]]] :
            t \in NeighborTables(n, k, N), v \in 1..2} :
        n \in 1..MaxPts, k \in 1..MaxK, N \in 1..2}

\* one small geometry, for the sweep over the options
PlainGeometry ==
    [q_pts |-> <<QueryCatalogue[1]>>,
     s_pts |-> <<SupportCatalogue[1]>>,
     neighb_inds |-> <<<<0, 1>>>>,
     x |-> <<FeatureCatalogue[1][1]>>]

\* one query point whose table has as many columns as the generator of
\* layer 0 takes rows (28), or one more: a real neighbor, then shadows
WideWidths == {layer_ind2neighbor[1], layer_ind2neighbor[1] + 1}
WideGeometry(k) ==
    [q_pts |-> <<QueryCatalogue[1]>>,
     s_pts |-> <<SupportCatalogue[1]>>,
     neighb_inds |-> <<[j \in 1..k |-> IF j = 1 THEN 0 ELSE 1]>>,
     x |-> <<FeatureCatalogue[1][1]>>]

\* the values the options may be given; the last of each is not a known one
InfluenceOptions == InfluenceKinds \cup {"quadratic"}
AggregationOptions == {"sum", "closest", "mean"}

\* the values of the two mode attributes: __init__ leaves them at 'Triplanes'
\* and True; 'Linear' and False are the other values forward distinguishes
Toggles == [conv_method : {"Triplanes", "Linear"}, generative_kernel_points : BOOLEAN]
Shipped == [conv_method |-> "Triplanes", generative_kernel_points |-> TRUE]

Options ==
    [KP_influence : InfluenceOptions, aggregation_mode : AggregationOptions,
     deformable : BOOLEAN, modulated : BOOLEAN, toggles : Toggles]

\* the options the geometries are run under
GeometryOptions ==
    {o \in Options :
        /\ o.KP_influence \in InfluenceKinds
        /\ o.aggregation_mode \in {"sum", "closest"}
        /\ (o.KP_influence = "linear") = (o.aggregation_mode = "closest")
        /\ o.KP_influence = "gaussian" => o.deformable /\ o.toggles = Shipped
        /\ o.modulated => o.deformable /\ o.aggregation_mode = "closest"
        /\ o.deformable => o.toggles.generative_kernel_points
        /\ o.toggles.conv_method = "Linear" => o.aggregation_mode = "sum"}

\* the options the wide tables are run under
WideOptions ==
    {o \in Options :
        /\ o.KP_influence = "constant" /\ o.aggregation_mode = "sum"
        /\ ~o.modulated /\ o.toggles = Shipped}

\* parameter values that the operator built from o reads
ParamsFor(o) ==
    {p \in ParamSets :
        /\ o.toggles.generative_kernel_points \/ p.gen = "bias"
        /\ p.bank = (IF o.toggles.conv_method = "Linear" THEN 2 ELSE 1)
        /\ p.theta.g = (IF o.toggles.conv_method = "Linear" THEN 0 ELSE 1)
        /\ p.bias = (IF o.deformable THEN FixedOne ELSE 0)}

\* an operator built with the options o, then put in the mode o.toggles
NewKPConv(o, layer_ind, p) ==
    LET built == KPConv_init(15, 2, 2, 2, layer_ind, o.KP_influence,
                             o.aggregation_mode, o.deformable, o.modulated, p)
    IN  IF o.toggles = Shipped THEN built ELSE set_mode(built, o.toggles)

\* the parameter values a freshly built operator starts from
FreshParams == [gen |-> "bias", bank |-> 1, theta |-> [b |-> 1, g |-> 0], bias |-> 0]

\* the geometry g with its feature rows repeated up to cin channels
WideFeatures(g, cin) ==
    [g EXCEPT !.x = [i \in 1..Len(g.x) |-> [c \in 1..cin |-> g.x[i][((c - 1) % 2) + 1]]]]

KPConvCall(g) ==
    [fn |-> "KPConv.forward", q_pts |-> g.q_pts, s_pts |-> g.s_pts,
     neighb_inds |-> g.neighb_inds, x |-> g.x]

TriplaneConvCall(g, r) ==
    [fn |-> "TriplaneConv.forward", q_pts |-> g.q_pts, s_pts |-> g.s_pts,
     neighb_inds |-> g.neighb_inds, neighb_r |-> r, x |-> g.x]

(***************************************************************************)
(* The forward passes as a state machine: an operator is built, one        *)
(* forward call is made on it, and the call returns or raises.             *)
(***************************************************************************)
\* The in-place statements of KPConv.forward and the tensor each writes to.
\* neighbors.unsqueeze_(2) writes the difference built at line 558,
\* neighb_row_inds.unsqueeze_(2) the output of torch.topk, all_weights *= ...
\* the output of ones_like / clamp / radius_gaussian, weighted_features *= ...
\* the output of matmul: tensors made inside the call.  new_neighb_inds *=
\* and -= (lines 604-605) write the tensor new_neighb_inds names: the output
\* of neighb_inds.gather in a deformable pass, the caller's neighb_inds
\* itself (line 607) in a non-deformable one.

\* new_neighb_inds naming the caller's table in every pass
new_neighb_inds_names_argument(op) == "neighb_inds"

new_neighb_inds_names(op) == IF op.deformable THEN "gather output" ELSE "neighb_inds"

\* the caller's arguments after the call: lines 604-605 are executed by a
\* deformable pass that has re-packed its table
arguments_after(op, args, t) ==
    IF op.deformable /\ t.new_neighb_inds # <<>> /\ new_neighb_inds_names(op) = "neighb_inds"
    THEN [args EXCEPT !.neighb_inds = t.new_neighb_inds]
    ELSE args

Init ==
    /\ ret = NoReturn
    /\ log = <<>>
    /\ \/ \E o \in Options, li \in {0, 2} : \E p \in ParamsFor(o) :
            /\ p.gen = "bias"
            /\ self = NewKPConv(o, li, p)
            /\ call = KPConvCall(PlainGeometry)
       \/ \E o \in GeometryOptions, g \in Geometries : \E p \in ParamsFor(o) :
            /\ self = NewKPConv(o, 0, p)
            /\ call = KPConvCall(g)
       \/ \E o \in WideOptions, k \in WideWidths, li \in {0, 1} :
            /\ self = NewKPConv(o, li, FreshParams)
            /\ call = KPConvCall(WideGeometry(k))
       \/ \E g \in Geometries, r \in {1, 2}, p \in ParamSets :
            /\ p.gen = "bias" /\ p.bank = 1 /\ p.bias = 0
            /\ self = TriplaneConv_init(15, 2, 2, 0, p)
            /\ call = TriplaneConvCall(g, r)
       \/ \E g \in Geometries, cin \in {2, WeightBankBases}, route \in {"flag", "attribute"} :
            /\ self = set_trick(TriplaneConv_init(15, cin, 2, 0, FreshParams), route)
            /\ call = TriplaneConvCall(WideFeatures(g, cin), 1)

\* KPConv.forward(q_pts, s_pts, neighb_inds, x)
KPConvForward ==
    /\ ret = NoReturn /\ call.fn = "KPConv.forward"
    /\ \E ord \in topk_choices(self, call.q_pts, call.s_pts, call.neighb_inds) :
           ret' = KPConv_forward(self, call.q_pts, call.s_pts, call.neighb_inds,
                                 call.x, ord)
    /\ log' = log \o ret'.log
    /\ self' = [self EXCEPT !.min_d2 = ret'.min_d2,
                            !.deformed_KP = ret'.deformed_KP,
                            !.offset_features = ret'.offset_features]
    /\ call' = arguments_after(self, call, ret')

\* TriplaneConv.forward(q_pts, s_pts, neighb_inds, neighb_r, x)
TriplaneConvForward ==
    /\ ret = NoReturn /\ call.fn = "TriplaneConv.forward"
    /\ ret' = TriplaneConv_forward(self, call.q_pts, call.s_pts, call.neighb_inds,
                                   call.neighb_r, call.x)
    /\ log' = log \o ret'.log
    /\ UNCHANGED <<self, call>>

Next == KPConvForward \/ TriplaneConvForward

Spec == Init /\ [][Next]_vars

(***************************************************************************)
(* Properties of the forward passes (checked under Spec).                  *)
(***************************************************************************)
\* a forward call of either operator has ended
ForwardDone == call.fn \in {"KPConv.forward", "TriplaneConv.forward"} /\ ret.kind # "none"

\* the forward call of a KPConv has returned its output
KPConvReturned == call.fn = "KPConv.forward" /\ ret.kind = "return"

\* the size of the padded support set, and the largest index of the table
PaddedSize == Len(call.s_pts) + 1
MaxIndex == SetMax(Entries(call.neighb_inds))

\* C1: in KPConv.forward and TriplaneConv.forward alike, a neighbor table with
\* an index past the shadow index is reported as an error that carries the
\* offending index and the table size, and the pass does not go on to gather
\* from the table or to return an output; a table whose largest index is the
\* shadow index itself draws no report and no index error.
C1_OutOfBoundsReported ==
    ForwardDone =>
        /\ MaxIndex >= PaddedSize =>
               /\ ret.kind = "raise"
               /\ \E l \in 1..Len(log) :
                      log[l] = [index |-> MaxIndex, shape |-> PaddedSize]
               /\ ~ret.gathered
        /\ MaxIndex < PaddedSize => log = <<>> /\ ret.err # "IndexError"

\* C2: a KPConv whose KP_influence is none of 'constant', 'linear',
\* 'gaussian', or whose aggregation_mode is none of 'sum', 'closest', ends
\* every forward call by raising (ValueError, when the call has no other
\* fault), deformable or not, and returns no output features.
C2_UnknownOptionsFailFast ==
    (/\ call.fn = "KPConv.forward" /\ ret.kind # "none"
     /\ \/ self.KP_influence \notin {"constant", "linear", "gaussian"}
        \/ self.aggregation_mode \notin {"sum", "closest"}) =>
        /\ ret.kind = "raise"
        /\ ret.out = <<>>
        /\ (/\ MaxIndex < PaddedSize
            /\ Len(call.neighb_inds[1]) <= layer_ind2neighbor[self.layer_ind + 1])
               => ret.err = "ValueError"

\* a deformable operator with a known influence and an unknown aggregation
\* mode has been called, and its offset_conv has raised
C2_Witness ==
    /\ call.fn = "KPConv.forward" /\ ret.kind = "raise" /\ ret.err = "ValueError"
    /\ self.deformable /\ ret.nested = 1
    /\ self.KP_influence = "linear" /\ self.aggregation_mode = "mean"

\* C21: when kernel points are generated, a KPConv.forward whose table has
\* no index past the shadow index, and whose options are known ones, pads
\* every query point's neighbor offsets to layer_ind2neighbor[l] rows: the
\* call returns, the
\* flattened vector given to the generator has 3 * layer_ind2neighbor[l]
\* entries, and K kernel points come out for every query point, whatever the
\* width of the table.
C21_GeneratorInputWidth ==
    (/\ call.fn = "KPConv.forward" /\ ret.kind # "none"
     /\ self.generative_kernel_points
     /\ self.KP_influence \in InfluenceKinds
     /\ self.aggregation_mode \in {"sum", "closest"}
     /\ MaxIndex < PaddedSize) =>
        /\ ret.kind = "return"
        /\ ret.generator_in = 3 * layer_ind2neighbor[self.layer_ind + 1]
        /\ Len(ret.K_points) = Len(call.q_pts)
        /\ \A n \in 1..Len(ret.K_points) : Len(ret.K_points[n]) = self.K

\* whether slot a of row n lies within KP_extent of at least one kernel point
SlotInRange(n, a) ==
    \E m \in 1..self.K : ret.sq_distances0[n][a][m] < self.KP_extent * self.KP_extent

\* j of row n: the number of its slots in range
InRangeCount(n) == Cardinality({a \in 1..Len(call.neighb_inds[n]) : SlotInRange(n, a)})

\* how many entries of a row equal v
CountOf(row, v) == Cardinality({a \in 1..Len(row) : row[a] = v})

\* C4 as stated: in a deformable pass over a table of width k, a row with j
\* slots in range is re-packed to j non-sentinel entries, each the original
\* index of an in-range neighbor, and k - j sentinel entries.
C4_RepackedCounts ==
    (KPConvReturned /\ self.deformable) =>
        \A n \in 1..Len(call.neighb_inds) :
            LET k == Len(call.neighb_inds[n])
                row == ret.new_neighb_inds[n]
                sentinel == Len(call.s_pts)
            IN  /\ Len(row) - CountOf(row, sentinel) = InRangeCount(n)
                /\ CountOf(row, sentinel) = k - InRangeCount(n)
                /\ \A a \in 1..Len(row) :
                       row[a] # sentinel =>
                           \E b \in 1..k : SlotInRange(n, b) /\ call.neighb_inds[n][b] = row[a]

\* C4, amended: the re-packed table has width W, the largest in-range count
\* of the batch; the row of a point with j slots in range holds the original
\* indices of those j slots (a shadow slot that is in range keeps the sentinel
\* index) and W - j further sentinel entries.
C4_RepackedToReducedWidth ==
    (KPConvReturned /\ self.deformable) =>
        LET W == SetMax({InRangeCount(n) : n \in 1..Len(call.neighb_inds)})
            sentinel == Len(call.s_pts)
        IN  \A n \in 1..Len(call.neighb_inds) :
                LET k == Len(call.neighb_inds[n])
                    row == ret.new_neighb_inds[n]
                    kept(v) == Cardinality({b \in 1..k :
                                   SlotInRange(n, b) /\ call.neighb_inds[n][b] = v})
                IN  /\ Len(row) = W
                    /\ \A v \in 0..sentinel :
                           CountOf(row, v) =
                               kept(v) + (IF v = sentinel THEN W - InRangeCount(n) ELSE 0)

\* a row with fewer slots in range than the re-packed width, one of its
\* discarded slots holding a real index
C4_Witness ==
    /\ KPConvReturned /\ self.deformable
    /\ \E n \in 1..Len(call.neighb_inds) :
           /\ 0 < InRangeCount(n)
           /\ InRangeCount(n) < Len(ret.new_neighb_inds[n])
           /\ \E b \in 1..Len(call.neighb_inds[n]) :
                  ~SlotInRange(n, b) /\ call.neighb_inds[n][b] < Len(call.s_pts)

\* the influence weights of the original slots of the table: [n][m][j]
SlotWeights ==
    aggregate_weights(self.aggregation_mode, self.KP_influence, ret.sq_distances0,
                      self.KP_extent, self.K)

\* the modulation of kernel point m at query point n (1 when not modulated)
SlotModulation(n, m) ==
    IF self.modulated THEN get_modulations(self, ret.offset_features)[n][m] ELSE 1

\* the feature of the support point of index i, channel c; the sentinel
\* index stands for no point
SlotFeature(i, c) == IF i = Len(call.s_pts) THEN 0 ELSE call.x[i + 1][c]

\* the weighted feature sum of kernel point m at query point n, channel c,
\* taken over the slots of the table that are in range and no others
InRangeSum(n, m, c) ==
    SumSeq([j \in 1..Len(call.neighb_inds[n]) |->
               IF SlotInRange(n, j)
               THEN SlotWeights[n][m][j] * SlotFeature(call.neighb_inds[n][j], c)
               ELSE 0])

\* C22: in a deformable KPConv.forward, under each influence policy, every
\* re-packed slot whose remaining distances are all KP_extent or more holds
\* the sentinel index and gathers the zero feature row, and the weighted
\* feature sum of every kernel point is the sum over the in-range neighbors
\* alone: a neighbor farther than KP_extent from every kernel point adds
\* nothing to it.
C22_OutOfRangeAddsNothing ==
    (KPConvReturned /\ self.deformable) =>
        \A n \in 1..Len(call.neighb_inds) :
            /\ \A a \in 1..Len(ret.new_neighb_inds[n]) :
                   (\A m \in 1..self.K :
                        ret.sq_distances[n][a][m] >= self.KP_extent * self.KP_extent) =>
                       /\ ret.new_neighb_inds[n][a] = Len(call.s_pts)
                       /\ \A c \in 1..self.in_channels : ret.neighb_x[n][a][c] = 0
            /\ \A m \in 1..self.K, c \in 1..self.in_channels :
                   ret.weighted_features[n][m][c] = SlotModulation(n, m) * InRangeSum(n, m, c)

\* a deformable pass with constant influence has returned; a row kept a
\* sentinel slot in its re-packed table, and one of its discarded neighbors
\* is a real point with a non-zero feature
C22_Witness ==
    /\ KPConvReturned /\ self.deformable /\ self.KP_influence = "constant"
    /\ \E n \in 1..Len(call.neighb_inds) :
           /\ InRangeCount(n) < Len(ret.new_neighb_inds[n])
           /\ \E b \in 1..Len(call.neighb_inds[n]) :
                  /\ ~SlotInRange(n, b)
                  /\ call.neighb_inds[n][b] < Len(call.s_pts)
                  /\ call.x[call.neighb_inds[n][b] + 1][1] # 0

\* the table with one more shadow entry at the end of every row
MorePadding(neighb_inds, sentinel) ==
    [n \in 1..Len(neighb_inds) |-> Append(neighb_inds[n], sentinel)]

\* C5: shadow neighbors are neutral in KPConv.forward: a second run that
\* differs only in how many shadow entries pad the rows returns the same
\* output for every query point.
C5_ShadowNeutral ==
    KPConvReturned =>
        LET wider == MorePadding(call.neighb_inds, Len(call.s_pts))
        IN  \A ord \in topk_choices(self, call.q_pts, call.s_pts, wider) :
                LET again == KPConv_forward(self, call.q_pts, call.s_pts, wider,
                                            call.x, ord)
                IN  again.kind = "return" /\ again.out = ret.out

\* the sum of the gathered neighbor feature rows of query point n, channel i
\* (shadow rows count as zero)
NeighborFeatureSum(n, i) ==
    SumSeq([j \in 1..Len(call.neighb_inds[n]) |->
                IF call.neighb_inds[n][j] = Len(call.x) THEN 0
                ELSE call.x[call.neighb_inds[n][j] + 1][i]])

\* the closed form: the sum over the K kernel points of the neighbor feature
\* sum times weights[k] (constant influence is the factor FixedOne)
ClosedForm(n, o) ==
    SumSeq([m \in 1..self.K |->
        SumSeq([i \in 1..self.in_channels |->
            NeighborFeatureSum(n, i) * FixedOne * weight_bank(self.weights, m, i, o)])])

\* a returned pass of an operator with fixed kernel points, `constant'
\* influence and `sum' aggregation
FixedConstantSum ==
    /\ KPConvReturned
    /\ ~self.deformable /\ ~self.generative_kernel_points
    /\ self.KP_influence = "constant" /\ self.aggregation_mode = "sum"

\* C6 as stated: with fixed kernel points, `constant' influence and `sum'
\* aggregation, every output row equals the closed form over weights[k].
C6_ClosedFormOutput ==
    FixedConstantSum =>
        \A n \in 1..Len(call.q_pts) : \A o \in 1..self.out_channels :
            ret.out[n][o] = ClosedForm(n, o)

\* C6, amended: the same, for an operator in non-tri-plane mode
\* (conv_method = 'Linear').
C6_ClosedFormOutputLinear ==
    (FixedConstantSum /\ self.conv_method = "Linear") =>
        \A n \in 1..Len(call.q_pts) : \A o \in 1..self.out_channels :
            ret.out[n][o] = ClosedForm(n, o)

\* a 'Linear' pass with fixed kernel points over two query points, a real and
\* a shadow neighbor in one row, and a non-zero output
C6_Witness ==
    /\ FixedConstantSum /\ self.conv_method = "Linear"
    /\ Len(call.q_pts) = 2
    /\ \E n \in 1..2 :
           /\ call.neighb_inds[n][1] < Len(call.x)
           /\ call.neighb_inds[n][Len(call.neighb_inds[n])] = Len(call.x)
           /\ ret.out[n][1] # 0

\* C7: with `closest', the weight of a (query point, neighbor) pair is kept
\* for one kernel point only, one of minimum squared distance to the neighbor,
\* and is zero for every other kernel point; with `sum', the weight of every
\* kernel point is kept unchanged.
C7_ClosestKeepsNearest ==
    KPConvReturned =>
        \A n \in 1..Len(ret.sq_distances) : \A j \in 1..Len(ret.sq_distances[n]) :
            LET d2 == ret.sq_distances[n][j]
                w(m) == influence(self.KP_influence, d2[m], self.KP_extent)
            IN  IF self.aggregation_mode = "closest"
                THEN \E m0 \in 1..self.K :
                         /\ \A m \in 1..self.K : d2[m0] <= d2[m]
                         /\ \A m \in 1..self.K :
                                ret.all_weights[n][m][j] = IF m = m0 THEN w(m) ELSE 0
                ELSE \A m \in 1..self.K : ret.all_weights[n][m][j] = w(m)

\* a `closest' pass in which a neighbor is in range of two kernel points and
\* keeps its weight for one of them only
C7_Witness ==
    /\ KPConvReturned /\ self.aggregation_mode = "closest"
    /\ \E n \in 1..Len(ret.sq_distances) : \E j \in 1..Len(ret.sq_distances[n]) :
           /\ Cardinality({m \in 1..self.K :
                  influence(self.KP_influence, ret.sq_distances[n][j][m],
                            self.KP_extent) > 0}) >= 2
           /\ Cardinality({m \in 1..self.K : ret.all_weights[n][m][j] > 0}) = 1

\* a TriplaneConv in the scored mode has been called with an in-bounds table
ScoredDone ==
    /\ call.fn = "TriplaneConv.forward" /\ self.with_trick /\ ret.kind # "none"
    /\ MaxIndex < PaddedSize

\* C17: in the scored ("trick") mode of TriplaneConv, the tensor field yields
\* an m-dimensional score vector for every (point, neighbor) pair, where m is
\* the number of bases of the weight bank, so the score tensor has shape
\* (points, neighbors, m) and contracts with the (points, m, cout) transformed
\* features for any input channel count cin.
C17_ScoreVectorHasBasesWidth ==
    ScoredDone =>
        /\ Len(ret.all_weights) = Len(call.neighb_inds)
        /\ \A n \in 1..Len(ret.all_weights) :
               /\ Len(ret.all_weights[n]) = Len(call.neighb_inds[n])
               /\ \A j \in 1..Len(ret.all_weights[n]) : Len(ret.all_weights[n][j]) = self.m
        /\ ret.kind = "return"
        /\ Len(ret.out) = Len(call.q_pts)
        /\ \A n \in 1..Len(ret.out) : Len(ret.out[n]) = self.cout

\* C18: in TriplaneConv.forward, every coordinate handed to the tensor field
\* is the gathered neighbor coordinate minus the query point, divided by the
\* neighborhood radius (the model keeps the numerator, with neighb_r as its
\* denominator), and lies in the normalized range [-1, 1] for every entry of
\* the neighbor table: for a support point within the radius of its query
\* point, and for the shadow entries as well.
C18_NormalizedCoordinates ==
    (call.fn = "TriplaneConv.forward" /\ ret.kind # "none" /\ MaxIndex < PaddedSize) =>
        \A n \in 1..Len(call.neighb_inds) : \A j \in 1..Len(call.neighb_inds[n]) :
            LET i == call.neighb_inds[n][j]
                centered == Sub3(pad_support(call.s_pts)[i + 1], call.q_pts[n])
            IN  /\ ret.sq_distances0[n][j] = centered
                /\ (i = Len(call.s_pts) \/ SqNorm(centered) <= call.neighb_r * call.neighb_r) =>
                       \A d \in 1..3 : Abs(ret.sq_distances0[n][j][d]) <= call.neighb_r

\* the positions of the events of one kind, or of one depth, in an outcome
EventsOf(kind) == {i \in 1..Len(ret.events) : ret.events[i].ev = kind}
EventsAt(depth) == {i \in 1..Len(ret.events) : ret.events[i].depth = depth}

\* the pending KPConv.forward call has an outcome
PendingCallEnds ==
    \E ord \in topk_choices(self, call.q_pts, call.s_pts, call.neighb_inds) :
        KPConv_forward(self, call.q_pts, call.s_pts, call.neighb_inds, call.x, ord).kind
            \in {"return", "raise"}

WithoutScratch(op) ==
    IF op.class = "KPConv"
    THEN [op EXCEPT !.min_d2 = <<>>, !.deformed_KP = <<>>, !.offset_features = <<>>]
    ELSE op

\* C15: a forward pass of KPConv or TriplaneConv leaves unchanged every
\* learned parameter of the operator (kernel points, factor planes, mapping
\* weights, weight bank, offset bias; those of the offset_conv as well) and
\* the caller's input tensors (query points, support points, neighbor table,
\* feature matrix); a non-deformable KPConv forward additionally leaves the
\* scratch fields min_d2, deformed_KP and offset_features unchanged.
C15_ForwardFrame ==
    [][/\ WithoutScratch(self') = WithoutScratch(self)
       /\ call' = call
       /\ (self.class = "KPConv" /\ ~self.deformable) => self' = self
       /\ self.class = "TriplaneConv" => self' = self]_vars

\* a deformable pass has re-packed a table into a narrower one and returned,
\* and the caller's table is the one that was passed
C15_Witness ==
    /\ KPConvReturned /\ self.deformable
    /\ self.min_d2 # <<>> /\ self.offset_features # <<>>
    /\ ret.new_neighb_inds # call.neighb_inds

(***************************************************************************)
(* Inputs of the utility calls.                                            *)
(***************************************************************************)
\* feature rows of two channels: positive, negative and zero entries
FeatureRows == {<<5, 0>>, <<-3, -1>>}

FeatureMatrices == UNION {SeqsOfLen(FeatureRows, n) : n \in 1..MaxPts}

\* pooling / upsampling tables over n rows: entries 0..n, n the shadow index
PoolTables(n) ==
    UNION {SeqsOfLen(SeqsOfLen(0..n, k), n2) : k \in 1..MaxK, n2 \in 1..2}

\* the ways to cut n rows into consecutive clouds (empty clouds included)
LengthLists(n) ==
    {l \in UNION {SeqsOfLen(0..n, b) : b \in 1..3} : SumSeq(l) = n}

\* names handed to the factory: the 22 it knows and some it does not
UnknownNames ==
    {"", "Unary", "simple_strided_deformable", "resnetb_strided_deformable",
     "maxpool", "max_pool_narrow", "global_max", "nearest_upsample_wide", "kpconv"}

BlockNames ==
    {"unary", "max_pool", "max_pool_wide", "global_average", "nearest_upsample"}
        \cup SimpleNames \cup ResnetNames \cup UnknownNames

\* the layer indices of a five-level architecture
LayerInds == 0..4

\* the matrix gather reads: the first n of these rows, all different
GatherRows == <<<<5, 0>>, <<-3, -1>>, <<1, 7>>, <<2, 2>>>>

\* shapes of the index tensor: 0 to 3 dimensions
IndexShapes ==
    {<<>>, <<1>>, <<2>>, <<1, 2>>, <<2, 1>>, <<2, 2>>, <<1, 1, 2>>, <<1, 2, 1>>, <<2, 1, 2>>}

\* the entries of an index tensor over n rows are drawn from -1..n: the rows
\* 0..n-1, the negative index -1 that plain indexing wraps, and the index n
\* past the end

\* squared distances 0..MaxSqDist and extents 1..3: distances below, at and
\* beyond each extent
MaxSqDist == 12
Extents == 1..3

\* the layer indices handed to the operators' constructors: those of the
\* five-level architecture, deeper ones and negative ones
ConstructLayerInds == -6..9

\* the kernel_size handed to the constructors (config.num_kernel_points)
KernelSizes == {10, 15}

\* the method argument: the three methods and values gather does not know
GatherMethods == {0, 1, 2, 3, -1}

(***************************************************************************)
(* The utility calls as a state machine: one call, then its outcome.       *)
(***************************************************************************)
InitUtil ==
    /\ self = NoObject
    /\ ret = NoReturn
    /\ log = <<>>
    /\ \/ \E x \in FeatureMatrices : \E inds \in PoolTables(Len(x)) :
              call \in {[fn |-> f, x |-> x, inds |-> inds] :
                            f \in {"max_pool", "closest_pool"}}
       \/ \E x \in FeatureMatrices : \E l \in LengthLists(Len(x)) :
              call = [fn |-> "global_average", x |-> x, batch_lengths |-> l]
       \/ \E n \in 1..MaxPts, sh \in IndexShapes, m \in GatherMethods :
              \E at \in [Positions(sh) -> -1..n] :
                  call = [fn |-> "gather", x |-> SubSeq(GatherRows, 1, n),
                          idx |-> Tensor(sh, at), method |-> m]
       \/ \E d \in SeqsOfLen(0..MaxSqDist, 2), e \in Extents :
              call = [fn |-> "linear_influence", sq_distances |-> d, KP_extent |-> e]
       \/ \E ks \in KernelSizes, li \in ConstructLayerInds, df \in BOOLEAN, md \in BOOLEAN :
              call = [fn |-> "KPConv.__init__", kernel_size |-> ks, in_channels |-> 2,
                      out_channels |-> 2, KP_extent |-> 2, layer_ind |-> li,
                      KP_influence |-> "linear", aggregation_mode |-> "sum",
                      deformable |-> df, modulated |-> md]
       \/ \E ks \in KernelSizes, li \in ConstructLayerInds, cin \in 1..3 :
              call = [fn |-> "TriplaneConv.__init__", kernel_size |-> ks, in_channels |-> cin,
                      out_channels |-> 2, layer_ind |-> li]
       \/ \E nm \in BlockNames, li \in LayerInds, dims \in {<<4, 8>>, <<8, 8>>} :
              call = [fn |-> "block_decider", block_name |-> nm, layer_ind |-> li,
                      in_dim |-> dims[1], out_dim |-> dims[2]]

MaxPool ==
    /\ ret = NoReturn /\ call.fn = "max_pool"
    /\ ret' = max_pool(call.x, call.inds)
    /\ UNCHANGED <<self, call, log>>

ClosestPool ==
    /\ ret = NoReturn /\ call.fn = "closest_pool"
    /\ ret' = closest_pool(call.x, call.inds)
    /\ UNCHANGED <<self, call, log>>

GlobalAverage ==
    /\ ret = NoReturn /\ call.fn = "global_average"
    /\ ret' = global_average(call.x, call.batch_lengths)
    /\ UNCHANGED <<self, call, log>>

BlockDecider ==
    /\ ret = NoReturn /\ call.fn = "block_decider"
    /\ ret' = block_decider(call.block_name, call.in_dim, call.out_dim, call.layer_ind)
    /\ UNCHANGED <<self, call, log>>

Gather ==
    /\ ret = NoReturn /\ call.fn = "gather"
    /\ ret' = gather_dispatch(call.x, call.idx, call.method)
    /\ UNCHANGED <<self, call, log>>

LinearInfluence ==
    /\ ret = NoReturn /\ call.fn = "linear_influence"
    /\ ret' = Return(linear_weights(call.sq_distances, call.KP_extent))
    /\ UNCHANGED <<self, call, log>>

KPConvNew ==
    /\ ret = NoReturn /\ call.fn = "KPConv.__init__"
    /\ ret' = KPConv_new(call.kernel_size, call.in_channels, call.out_channels,
                         call.KP_extent, call.layer_ind, call.KP_influence,
                         call.aggregation_mode, call.deformable, call.modulated, FreshParams)
    /\ self' = IF ret'.kind = "return" THEN ret'.val ELSE self
    /\ UNCHANGED <<call, log>>

TriplaneConvNew ==
    /\ ret = NoReturn /\ call.fn = "TriplaneConv.__init__"
    /\ ret' = Return(TriplaneConv_init(call.kernel_size, call.in_channels,
                                       call.out_channels, call.layer_ind, FreshParams))
    /\ self' = ret'.val
    /\ UNCHANGED <<call, log>>

NextUtil ==
    \/ MaxPool \/ ClosestPool \/ GlobalAverage \/ BlockDecider
    \/ Gather \/ LinearInfluence \/ KPConvNew \/ TriplaneConvNew

SpecUtil == InitUtil /\ [][NextUtil]_vars

(***************************************************************************)
(* Properties of the utility calls (checked under SpecUtil).               *)
(***************************************************************************)
\* the names block_decider knows, by the block type each must give
KnownBlockNames ==
    {"unary", "max_pool", "max_pool_wide", "global_average", "nearest_upsample"}
        \cup SimpleNames \cup ResnetNames

\* C3: block_decider maps 'unary' to UnaryBlock, each of the eight simple*
\* names to SimpleBlock, each of the eight resnetb* names to
\* ResnetBottleneckBlock, 'max_pool' and 'max_pool_wide' to MaxPoolBlock,
\* 'global_average' to GlobalAverageBlock and 'nearest_upsample' to
\* NearestUpsampleBlock; any other name raises ValueError and no block is made.
C3_BlockDeciderMapping ==
    /\ Cardinality(SimpleNames) = 8 /\ Cardinality(ResnetNames) = 8
    /\ SimpleNames \cap ResnetNames = {}
    /\ (call.fn = "block_decider" /\ ret.kind # "none") =>
         LET nm == call.block_name
             made(cls) == ret.kind = "return" /\ ret.val.class = cls
         IN  /\ nm = "unary" => made("UnaryBlock")
             /\ nm \in SimpleNames => made("SimpleBlock")
             /\ nm \in ResnetNames => made("ResnetBottleneckBlock")
             /\ nm \in {"max_pool", "max_pool_wide"} => made("MaxPoolBlock")
             /\ nm = "global_average" => made("GlobalAverageBlock")
             /\ nm = "nearest_upsample" => made("NearestUpsampleBlock")
             /\ nm \notin KnownBlockNames => ret = Raise("ValueError")

\* the factory has been asked for 'max_pool_wide' and has answered
C3_Witness ==
    /\ call.fn = "block_decider" /\ call.block_name = "max_pool_wide"
    /\ ret.kind = "return" /\ ret.val.class = "MaxPoolBlock"

\* the columns of row i of a pooling table that hold a real (non-shadow) index
RealColumns(x, inds, i) == {j \in 1..Len(inds[i]) : inds[i][j] < Len(x)}

\* C8: max_pool returns, per row of inds, the element-wise maximum of the
\* feature rows it indexes, and a shadow entry never wins that maximum: a row
\* with at least one real entry yields the maximum over its real entries.
C8_ShadowNeverWinsMax ==
    (call.fn = "max_pool" /\ ret.kind = "return") =>
        \A i \in 1..Len(call.inds) :
            RealColumns(call.x, call.inds, i) # {} =>
                \A c \in 1..Len(call.x[1]) :
                    ret.val[i][c] =
                        SetMax({call.x[call.inds[i][j] + 1][c] :
                                    j \in RealColumns(call.x, call.inds, i)})

\* the tables that agree with inds on the first column and differ freely on
\* the others (entries 0..n)
SameFirstColumn(inds, n) ==
    {[i \in 1..Len(inds) |-> <<inds[i][1]>> \o tails[i]] :
        tails \in SeqsOfLen(SeqsOfLen(0..n, Len(inds[1]) - 1), Len(inds))}

\* C9: closest_pool returns for each output row the row of x at inds[row, 0]
\* (the zero row when that index is the shadow index len(x)), and any other
\* table with the same first column gives the same result.
C9_ClosestPoolFirstColumn ==
    (call.fn = "closest_pool" /\ ret.kind # "none") =>
        /\ ret.kind = "return"
        /\ Len(ret.val) = Len(call.inds)
        /\ \A i \in 1..Len(call.inds) :
               ret.val[i] = IF call.inds[i][1] = Len(call.x)
                            THEN [c \in 1..Len(call.x[1]) |-> 0]
                            ELSE call.x[call.inds[i][1] + 1]
        /\ \A other \in SameFirstColumn(call.inds, Len(call.x)) :
               closest_pool(call.x, other) = ret

\* a two-column table whose columns disagree in every row, one first entry
\* being the shadow index, has been pooled
C9_Witness ==
    /\ call.fn = "closest_pool" /\ ret.kind = "return"
    /\ Len(call.inds) = 2 /\ Len(call.inds[1]) = 2
    /\ \A i \in 1..2 : call.inds[i][1] # call.inds[i][2]
    /\ call.inds[1][1] = Len(call.x) /\ call.inds[2][1] = 0

\* the offset of cloud b in the stacked rows: sum(lengths[0..b-1])
SegmentOffset(lengths, b) == SumSeq(SubSeq(lengths, 1, b - 1))

\* C10: global_average returns len(lengths) rows in segment order; row b is
\* the mean of the lengths[b] consecutive rows of x that start at offset
\* sum(lengths[0..b-1]).
C10_GlobalAverageSegments ==
    (call.fn = "global_average" /\ ret.kind # "none") =>
        LET l == call.batch_lengths
            x == call.x
        IN  /\ ret.kind = "return"
            /\ Len(ret.val) = Len(l)
            /\ \A b \in 1..Len(l) :
                   /\ ret.val[b].cnt = l[b]
                   /\ \A c \in 1..Len(x[1]) :
                          ret.val[b].sum[c] =
                              SumSeq([r \in 1..l[b] |-> x[SegmentOffset(l, b) + r][c]])

\* two non-empty clouds with different means have been averaged
C10_Witness ==
    /\ call.fn = "global_average" /\ ret.kind = "return"
    /\ Len(ret.val) >= 2
    /\ call.batch_lengths[1] > 0 /\ call.batch_lengths[2] > 0
    /\ ret.val[1] # ret.val[2]

\* what the claim says gather returns: shape idx.shape + x.shape[1:], the
\* entry at position p the row x[idx[p]]
RowsAtPositions(x, idx) ==
    Tensor(idx.shape \o <<Len(x[1])>>,
           [q \in Positions(idx.shape \o <<Len(x[1])>>) |->
               x[idx.at[SubSeq(q, 1, Len(idx.shape))] + 1][q[Len(q)]]])

IndexEntries(idx) == {idx.at[p] : p \in Positions(idx.shape)}

C12_LinearInfluenceShape ==
    (call.fn = "linear_influence" /\ ret.kind # "none") =>
        LET d2 == call.sq_distances
            e == call.KP_extent
            w == ret.val
        IN  /\ ret.kind = "return" /\ Len(w) = Len(d2)
            /\ \A i, j \in 1..Len(d2) : d2[i] <= d2[j] => w[i] >= w[j]
            /\ \A i \in 1..Len(d2) :
                   /\ d2[i] = 0 => w[i] = FixedOne
                   /\ d2[i] = e * e => w[i] = 0
                   /\ d2[i] > e * e => w[i] = 0
                   /\ w[i] >= 0 /\ w[i] <= FixedOne
                   /\ w[i] = linear_influence(d2[i], e)

\* one distance strictly inside the extent and one beyond it have been weighed
C12_Witness ==
    /\ call.fn = "linear_influence" /\ ret.kind = "return"
    /\ call.KP_extent = 2
    /\ call.sq_distances = <<1, 9>>
    /\ ret.val[1] > 0 /\ ret.val[1] < FixedOne /\ ret.val[2] = 0

\* a constructor call has built its operator
Constructed == call.fn \in {"KPConv.__init__", "TriplaneConv.__init__"} /\ ret.kind = "return"

\* C13: the side length of each operator's three factor planes equals the
\* base resolution (128) at layer index 0 and is halved for each further
\* layer index (floor(128 / 2^layer_ind)), and it is >= 2 for every layer
\* index with which a KPConv or TriplaneConv can be constructed.
C13_PlaneSideAtLeastTwo ==
    Constructed =>
        /\ call.layer_ind = 0 => self.neiGridSize = 128
        /\ call.layer_ind >= 0 => self.neiGridSize = 128 \div Pow2(call.layer_ind)
        /\ self.neiGridSize >= 2

\* C14: the kernel-point count is a configuration option that the operator
\* honours: a KPConv constructed with kernel_size = K uses exactly K kernel
\* points for its kernel-point set, its per-kernel-point weights (self.K
\* slices), its offset dimension and its distance computation (self.K
\* kernel points per neighbor).
C14_KernelSizeHonoured ==
    (call.fn = "KPConv.__init__" /\ ret.kind = "return") =>
        /\ self.K = call.kernel_size
        /\ Len(self.kernel_points) = call.kernel_size
        /\ (self.deformable /\ ~self.modulated) =>
               self.offset_dim = self.p_dim * call.kernel_size
        /\ (self.deformable /\ self.modulated) =>
               self.offset_dim = (self.p_dim + 1) * call.kernel_size

(***************************************************************************)
(* Complex blocks  (blocks.py 717-976)                                     *)
(***************************************************************************)
\* A feature tensor inside a block: dims 2 is a matrix (rows), dims 1 a
\* vector (rows holds it as one row), dims 0 an error already raised (err).
\* scale is the denominator the integer entries carry.
Feat(rows, scale) == [dims |-> 2, rows |-> rows, scale |-> scale, err |-> ""]
Failed(e) == [dims |-> 0, rows |-> <<>>, scale |-> 1, err |-> e]

\* 'strided' in block_name, 'deform' in block_name: the names that hold the
\* substring
HoldsStrided ==
    {"simple_strided", "simple_deformable_strided", "simple_invariant_strided",
     "simple_equivariant_strided", "resnetb_strided", "resnetb_deformable_strided",
     "resnetb_equivariant_strided", "resnetb_invariant_strided"}
HoldsDeform ==
    {"simple_deformable", "simple_deformable_strided", "resnetb_deformable",
     "resnetb_deformable_strided"}

\* nn.LeakyReLU(0.1): v for v >= 0, v / 10 below; the result carries one more
\* factor 10
leaky_relu(x) ==
    IF x.dims = 0 THEN x
    ELSE [x EXCEPT !.scale = 10 * @,
                   !.rows = [n \in 1..Len(x.rows) |-> [c \in 1..Len(x.rows[n]) |->
                                IF x.rows[n][c] >= 0 THEN 10 * x.rows[n][c]
                                ELSE x.rows[n][c]]]]

\* BatchNormBlock.forward (blocks.py 740-749).  Without batch norm: x + bias,
\* the bias zero as __init__ leaves it.  With it: nn.BatchNorm1d in evaluation
\* mode with the running statistics __init__ leaves (mean 0, variance 1), and
\* then x.squeeze(), which drops every dimension of extent 1: the row
\* dimension of a one-row matrix, the column dimension of a one-column one;
\* x.unsqueeze(2) rejects a vector.
BatchNormBlock_forward(use_bn, x) ==
    IF x.dims = 0 \/ ~use_bn THEN x
    ELSE IF x.dims = 1 THEN Failed("IndexError")
    ELSE IF Len(x.rows) = 1 THEN [x EXCEPT !.dims = 1]
    ELSE IF Len(x.rows[1]) = 1
    THEN [x EXCEPT !.dims = 1, !.rows = <<[n \in 1..Len(x.rows) |-> x.rows[n][1]]>>]
    ELSE x

\* the weights of a nn.Linear(in_dim, out_dim, bias=False)
mlp_weight(o, i) == IF (o + i) % 2 = 0 THEN 1 ELSE -1

\* self.mlp(x): the last dimension of x is contracted with the weights
mlp(in_dim, out_dim, x) ==
    IF x.dims = 0 THEN x
    ELSE IF Len(x.rows[1]) # in_dim THEN Failed("RuntimeError")
    ELSE [x EXCEPT !.rows = [n \in 1..Len(x.rows) |-> [o \in 1..out_dim |->
                                SumSeq([i \in 1..in_dim |-> mlp_weight(o, i) * x.rows[n][i]])]]]

\* UnaryBlock.__init__ / nn.Identity()
UnaryBlock_init(in_dim, out_dim, use_bn, no_relu) ==
    [class |-> "UnaryBlock", in_dim |-> in_dim, out_dim |-> out_dim,
     use_bn |-> use_bn, no_relu |-> no_relu]
Identity == [class |-> "Identity", in_dim |-> 0, out_dim |-> 0, use_bn |-> FALSE, no_relu |-> TRUE]

\* UnaryBlock.forward (blocks.py 780-785); nn.Identity returns its input
UnaryBlock_forward(u, x) ==
    IF u.class = "Identity" THEN x
    ELSE IF u.no_relu THEN BatchNormBlock_forward(u.use_bn, mlp(u.in_dim, u.out_dim, x))
    ELSE leaky_relu(BatchNormBlock_forward(u.use_bn, mlp(u.in_dim, u.out_dim, x)))

\* x + shortcut: equal shapes, or an extent 1 broadcast against the other
add_features(a, b) ==
    IF a.dims = 0 THEN a
    ELSE IF b.dims = 0 THEN b
    ELSE IF a.dims # b.dims \/ Len(a.rows[1]) # Len(b.rows[1]) THEN Failed("RuntimeError")
    ELSE IF Len(a.rows) # Len(b.rows) /\ Len(a.rows) # 1 /\ Len(b.rows) # 1
    THEN Failed("RuntimeError")
    ELSE [a EXCEPT !.scale = a.scale * b.scale,
                   !.rows = [n \in 1..SetMax({Len(a.rows), Len(b.rows)}) |->
                                [c \in 1..Len(a.rows[1]) |->
                                    a.rows[IF Len(a.rows) = 1 THEN 1 ELSE n][c] * b.scale
                                    + b.rows[IF Len(b.rows) = 1 THEN 1 ELSE n][c] * a.scale]]]

\* current_extent = radius * config.KP_extent / config.conv_radius
current_extent(radius, config) == (radius * config.KP_extent) \div config.conv_radius

\* the convolution operator a block builds: self.KPConv or self.TriplaneConv
block_operator(block_name, in_channels, out_channels, radius, layer_ind, config) ==
    IF config.method = "KPConv"
    THEN KPConv_init(config.num_kernel_points, in_channels, out_channels,
                     current_extent(radius, config), layer_ind, config.KP_influence,
                     config.aggregation_mode, block_name \in HoldsDeform,
                     config.modulated, FreshParams)
    ELSE TriplaneConv_init(config.num_kernel_points, in_channels, out_channels,
                           layer_ind, FreshParams)

\* SimpleBlock.__init__ (blocks.py 796-843)
SimpleBlock_init(block_name, in_dim, out_dim, radius, layer_ind, config) ==
    [class |-> "SimpleBlock", block_name |-> block_name, layer_ind |-> layer_ind,
     in_dim |-> in_dim, out_dim |-> out_dim, method |-> config.method,
     use_bn |-> config.use_batch_norm,
     conv |-> block_operator(block_name, in_dim, out_dim \div 2, radius, layer_ind, config),
     unary1 |-> Identity, unary2 |-> Identity, unary_shortcut |-> Identity]

\* a shortcut that is never projected
unary_shortcut_identity(in_dim, out_dim, use_bn) == Identity

\* `if in_dim != out_dim: self.unary_shortcut = UnaryBlock(...) else nn.Identity()'
unary_shortcut(in_dim, out_dim, use_bn) ==
    IF in_dim # out_dim THEN UnaryBlock_init(in_dim, out_dim, use_bn, TRUE) ELSE Identity

\* ResnetBottleneckBlock.__init__ (blocks.py 875-937)
ResnetBottleneckBlock_init(block_name, in_dim, out_dim, radius, layer_ind, config) ==
    [class |-> "ResnetBottleneckBlock", block_name |-> block_name, layer_ind |-> layer_ind,
     in_dim |-> in_dim, out_dim |-> out_dim, method |-> config.method,
     use_bn |-> config.use_batch_norm,
     conv |-> block_operator(block_name, out_dim \div 4, out_dim \div 4, radius,
                             layer_ind, config),
     unary1 |-> IF in_dim # out_dim \div 4
                THEN UnaryBlock_init(in_dim, out_dim \div 4, config.use_batch_norm, FALSE)
                ELSE Identity,
     unary2 |-> UnaryBlock_init(out_dim \div 4, out_dim, config.use_batch_norm, TRUE),
     unary_shortcut |-> unary_shortcut(in_dim, out_dim, config.use_batch_norm)]

\* What a block's forward leaves behind: how it ended, the arguments it
\* handed to its convolution operator (conv_args) and that call's outcome
\* (conv), the branch through the convolution (branch), the shortcut before
\* and after its projection (pooled, shortcut) and the returned features.
BlockOutcome ==
    [kind |-> "raise", err |-> "", out |-> Failed(""), conv_args |-> <<>>, conv |-> Outcome,
     branch |-> Failed(""), pooled |-> Failed(""), shortcut |-> Failed("")]

\* the rows of the batch every block reads, whatever its name
select_inputs_never_strided(block_name, layer_ind, batch) ==
    [q_pts |-> batch.points[layer_ind + 1],
     s_pts |-> batch.points[layer_ind + 1],
     neighb_inds |-> batch.neighbors[layer_ind + 1],
     neighb_r |-> batch.neighbor_r[layer_ind + 1]]

\* `if 'strided' in self.block_name: ... else: ...' (blocks.py 847-862,
\* 941-954); the lists of the batch are indexed from 0
select_inputs(block_name, layer_ind, batch) ==
    IF block_name \in HoldsStrided
    THEN [q_pts |-> batch.points[layer_ind + 2],
          s_pts |-> batch.points[layer_ind + 1],
          neighb_inds |-> batch.pools[layer_ind + 1],
          neighb_r |-> batch.neighbor_r[layer_ind + 1]]
    ELSE [q_pts |-> batch.points[layer_ind + 1],
          s_pts |-> batch.points[layer_ind + 1],
          neighb_inds |-> batch.neighbors[layer_ind + 1],
          neighb_r |-> batch.neighbor_r[layer_ind + 1]]

\* self.KPConv(q_pts, s_pts, neighb_inds, x) or
\* self.TriplaneConv(q_pts, s_pts, neighb_inds, neighb_r, x); x[:1, :] of a
\* vector is an IndexError in both
block_conv(block, sel, x, neighb_row_inds) ==
    IF x.dims = 0 THEN [Outcome EXCEPT !.err = x.err]
    ELSE IF x.dims = 1 THEN [Outcome EXCEPT !.err = "IndexError"]
    ELSE IF block.method = "KPConv"
    THEN KPConv_forward(block.conv, sel.q_pts, sel.s_pts, sel.neighb_inds, x.rows,
                        neighb_row_inds)
    ELSE TriplaneConv_forward(block.conv, sel.q_pts, sel.s_pts, sel.neighb_inds,
                              sel.neighb_r, x.rows)

\* the arguments of that call
block_conv_args(sel, x) ==
    [q_pts |-> sel.q_pts, s_pts |-> sel.s_pts, neighb_inds |-> sel.neighb_inds,
     neighb_r |-> sel.neighb_r, x |-> x.rows]

\* the output of the convolution as a feature tensor: the denominator of a
\* KPConv output is FixedOne (modulated: FixedOne * FixedOne), that of a
\* TriplaneConv output neighb_r * neighb_r
conv_features(block, sel, x, c) ==
    IF c.kind = "raise" THEN Failed(c.err)
    ELSE Feat(c.out, x.scale * (IF block.method # "KPConv" THEN sel.neighb_r * sel.neighb_r
                                ELSE IF c.unit = 2 THEN FixedOne * FixedOne
                                ELSE FixedOne))

\* how a forward ends: with its features, or with the error some step raised
block_return(t) ==
    IF t.out.dims = 0 THEN [t EXCEPT !.kind = "raise", !.err = t.out.err]
    ELSE [t EXCEPT !.kind = "return"]

\* SimpleBlock.forward (blocks.py 845-870)
SimpleBlock_after_conv(block, sel, x, c) ==
    block_return([BlockOutcome EXCEPT
        !.conv_args = block_conv_args(sel, x),
        !.conv = c,
        !.branch = conv_features(block, sel, x, c),
        !.out = leaky_relu(BatchNormBlock_forward(block.use_bn,
                                                  conv_features(block, sel, x, c)))])

SimpleBlock_select(block, x, sel, neighb_row_inds) ==
    SimpleBlock_after_conv(block, sel, x, block_conv(block, sel, x, neighb_row_inds))

SimpleBlock_forward(block, x, batch, neighb_row_inds) ==
    SimpleBlock_select(block, x, select_inputs(block.block_name, block.layer_ind, batch),
                       neighb_row_inds)

\* `if 'strided' in self.block_name: shortcut = max_pool(features, neighb_inds)
\*  else: shortcut = features' (blocks.py 969-972)
shortcut_input(block, features, sel) ==
    IF block.block_name \notin HoldsStrided THEN features
    ELSE IF max_pool(features.rows, sel.neighb_inds).kind = "raise"
    THEN Failed(max_pool(features.rows, sel.neighb_inds).err)
    ELSE [features EXCEPT !.rows = max_pool(features.rows, sel.neighb_inds).val]

\* ResnetBottleneckBlock.forward (blocks.py 939-976)
Resnet_sum(t) ==
    block_return([t EXCEPT !.out = leaky_relu(add_features(t.branch, t.shortcut))])

Resnet_shortcut(block, t) ==
    Resnet_sum([t EXCEPT !.shortcut = UnaryBlock_forward(block.unary_shortcut, t.pooled)])

Resnet_after_conv(block, features, sel, x, c) ==
    IF c.kind = "raise"
    THEN [BlockOutcome EXCEPT !.err = c.err, !.conv = c,
                              !.conv_args = block_conv_args(sel, x)]
    ELSE Resnet_shortcut(block,
             [BlockOutcome EXCEPT
                 !.conv_args = block_conv_args(sel, x),
                 !.conv = c,
                 !.branch = UnaryBlock_forward(block.unary2,
                                leaky_relu(BatchNormBlock_forward(block.use_bn,
                                    conv_features(block, sel, x, c)))),
                 !.pooled = shortcut_input(block, features, sel)])

Resnet_unary1(block, features, sel, x, neighb_row_inds) ==
    Resnet_after_conv(block, features, sel, x, block_conv(block, sel, x, neighb_row_inds))

ResnetBottleneckBlock_forward(block, features, batch, neighb_row_inds) ==
    Resnet_unary1(block, features,
                  select_inputs(block.block_name, block.layer_ind, batch),
                  UnaryBlock_forward(block.unary1, features), neighb_row_inds)

(***************************************************************************)
(* The blocks as a state machine: a block is built, one forward call is    *)
(* made on it with a batch, and the call returns or raises.                *)
(***************************************************************************)
\* the point sets of a batch of three levels: two, two and one point
BatchPoints ==
    <<<<SupportCatalogue[1], SupportCatalogue[2]>>,
      <<SupportCatalogue[3], SupportCatalogue[4]>>,
      <<QueryCatalogue[1]>>>>

\* the tables of a batch: neighbors[l] has a row per point of level l over
\* the points of level l, pools[l] a row per point of level l + 1 over the
\* points of level l; index 2 is the shadow index of both levels
BatchTables ==
    {[neighbors |-> <<<<<<0, 1>>, <<1, 0>>>>, <<<<0, 2>>, <<1, 2>>>>>>,
      pools |-> <<<<<<1, 2>>, <<0, 1>>>>, <<<<1, 0>>>>>>],
     [neighbors |-> <<<<<<0>>, <<1>>>>, <<<<1>>, <<0>>>>>>,
      pools |-> <<<<<<1>>, <<2>>>>, <<<<0>>>>>>],
     [neighbors |-> <<<<<<0, 2>>, <<2, 2>>>>, <<<<1, 0>>, <<0, 2>>>>>>,
      pools |-> <<<<<<0, 2>>, <<1, 2>>>>, <<<<2, 2>>>>>>]}

Batches ==
    {[points |-> BatchPoints, neighbors |-> t.neighbors, pools |-> t.pools,
      neighbor_r |-> <<1, 2>>] : t \in BatchTables}

\* the configurations: both methods, with and without batch norm
Configs ==
    [method : {"KPConv", "Triplane"}, use_batch_norm : BOOLEAN, num_kernel_points : {15},
     KP_influence : {"linear"}, aggregation_mode : {"sum"}, modulated : {FALSE},
     KP_extent : {2}, conv_radius : {2}]

\* the features of the two points of a level, in_dim channels
BlockFeatures(in_dim) ==
    {Feat([i \in 1..2 |-> [c \in 1..in_dim |-> FeatureCatalogue[v][i][((c - 1) % 2) + 1]]], 1) :
        v \in 1..2}

InitBlock ==
    /\ ret = NoReturn
    /\ log = <<>>
    /\ \E config \in Configs, li \in {0, 1}, b \in Batches :
        \/ \E nm \in SimpleNames, x \in BlockFeatures(2) :
            /\ self = SimpleBlock_init(nm, 2, 4, 2, li, config)
            /\ call = [fn |-> "SimpleBlock.forward", x |-> x, batch |-> b]
        \/ \E nm \in ResnetNames, in_dim \in {2, 8} : \E x \in BlockFeatures(in_dim) :
            /\ self = ResnetBottleneckBlock_init(nm, in_dim, 8, 2, li, config)
            /\ call = [fn |-> "ResnetBottleneckBlock.forward", x |-> x, batch |-> b]

\* the orders torch.topk may return inside the block's convolution
block_topk_choices(block, sel) ==
    IF block.method = "KPConv"
    THEN topk_choices(block.conv, sel.q_pts, sel.s_pts, sel.neighb_inds)
    ELSE {<<>>}

\* the block's operator after the call: a KPConv keeps its scratch fields
operator_after(op, c) ==
    IF op.class = "KPConv"
    THEN [op EXCEPT !.min_d2 = c.min_d2, !.deformed_KP = c.deformed_KP,
                    !.offset_features = c.offset_features]
    ELSE op

\* SimpleBlock.forward(x, batch)
SimpleBlockForward ==
    /\ ret = NoReturn /\ call.fn = "SimpleBlock.forward"
    /\ \E ord \in block_topk_choices(self,
                      select_inputs(self.block_name, self.layer_ind, call.batch)) :
           ret' = SimpleBlock_forward(self, call.x, call.batch, ord)
    /\ log' = log \o ret'.conv.log
    /\ self' = [self EXCEPT !.conv = operator_after(self.conv, ret'.conv)]
    /\ UNCHANGED call

\* ResnetBottleneckBlock.forward(features, batch)
ResnetBottleneckBlockForward ==
    /\ ret = NoReturn /\ call.fn = "ResnetBottleneckBlock.forward"
    /\ \E ord \in block_topk_choices(self,
                      select_inputs(self.block_name, self.layer_ind, call.batch)) :
           ret' = ResnetBottleneckBlock_forward(self, call.x, call.batch, ord)
    /\ log' = log \o ret'.conv.log
    /\ self' = [self EXCEPT !.conv = operator_after(self.conv, ret'.conv)]
    /\ UNCHANGED call

NextBlock == SimpleBlockForward \/ ResnetBottleneckBlockForward

SpecBlock == InitBlock /\ [][NextBlock]_vars

(***************************************************************************)
(* Properties of the blocks (checked under SpecBlock).                     *)
(***************************************************************************)
BlockDone ==
    call.fn \in {"SimpleBlock.forward", "ResnetBottleneckBlock.forward"} /\ ret.kind # "none"

\* C19: SimpleBlock.forward and ResnetBottleneckBlock.forward hand their
\* convolution the query points of level l + 1, the support points of level l
\* and the table pools[l] when the block name holds 'strided', the points of
\* level l for both and the table neighbors[l] otherwise, and the radius
\* neighbor_r[l] in both cases (l the block's layer_ind; the model's lists
\* are indexed from 1).
C19_BlockInputs ==
    BlockDone =>
        LET l == self.layer_ind
            b == call.batch
            a == ret.conv_args
        IN  /\ self.block_name \in HoldsStrided =>
                   /\ a.q_pts = b.points[l + 2]
                   /\ a.s_pts = b.points[l + 1]
                   /\ a.neighb_inds = b.pools[l + 1]
            /\ self.block_name \notin HoldsStrided =>
                   /\ a.q_pts = b.points[l + 1]
                   /\ a.s_pts = b.points[l + 1]
                   /\ a.neighb_inds = b.neighbors[l + 1]
            /\ a.neighb_r = b.neighbor_r[l + 1]
            /\ ret.conv.gathered

\* a strided block of layer 1 has returned: its convolution ran on the one
\* point of level 2 over the two points of level 1
C19_Witness ==
    /\ BlockDone /\ ret.kind = "return"
    /\ self.block_name = "simple_strided" /\ self.layer_ind = 1
    /\ ret.conv.kind = "return"
    /\ Len(ret.conv_args.q_pts) = 1 /\ Len(ret.conv_args.s_pts) = 2
    /\ ret.conv_args.neighb_r = 2

\* the input features with the zero row max_pool appends for the shadow index
PaddedInput == Append(call.x.rows, [c \in 1..self.in_dim |-> 0])

\* row by row, the largest feature among the rows a pooling table names
PooledInput(pools) ==
    [n \in 1..Len(pools) |-> [c \in 1..self.in_dim |->
        SetMax({PaddedInput[pools[n][j] + 1][c] : j \in 1..Len(pools[n])})]]

Is2D(t, rows, width) ==
    t.dims = 2 /\ Len(t.rows) = rows /\ \A n \in 1..rows : Len(t.rows[n]) = width

\* C20: in ResnetBottleneckBlock the shortcut starts from the input features
\* max-pooled with pools[l] exactly when the block name holds 'strided' (the
\* input features themselves otherwise), goes through a UnaryBlock projection
\* in_dim -> out_dim without activation exactly when in_dim differs from
\* out_dim (unchanged otherwise), and in every call that returns it has one
\* row per query point and out_dim columns, as the convolution branch it is
\* added to.
C20_ShortcutMatchesBranch ==
    call.fn = "ResnetBottleneckBlock.forward" =>
        /\ (self.unary_shortcut.class = "UnaryBlock") <=> (self.in_dim # self.out_dim)
        /\ self.unary_shortcut.class = "UnaryBlock" =>
               /\ self.unary_shortcut.in_dim = self.in_dim
               /\ self.unary_shortcut.out_dim = self.out_dim
               /\ self.unary_shortcut.no_relu
        /\ ret.kind = "return" =>
               /\ self.block_name \in HoldsStrided =>
                      ret.pooled.rows = PooledInput(call.batch.pools[self.layer_ind + 1])
               /\ self.block_name \notin HoldsStrided => ret.pooled = call.x
               /\ self.in_dim = self.out_dim => ret.shortcut = ret.pooled
               /\ Is2D(ret.pooled, Len(ret.conv_args.q_pts), self.in_dim)
               /\ Is2D(ret.shortcut, Len(ret.conv_args.q_pts), self.out_dim)
               /\ Is2D(ret.branch, Len(ret.conv_args.q_pts), self.out_dim)
               /\ Is2D(ret.out, Len(ret.conv_args.q_pts), self.out_dim)

\* a strided block with in_dim # out_dim has returned: its shortcut was
\* pooled to rows that differ from the input and projected from 2 to 8
\* columns
C20_Witness ==
    /\ call.fn = "ResnetBottleneckBlock.forward" /\ ret.kind = "return"
    /\ self.block_name = "resnetb_strided" /\ self.in_dim = 2 /\ self.out_dim = 8
    /\ ret.pooled.rows # call.x.rows
    /\ Len(ret.pooled.rows[1]) = 2 /\ Len(ret.shortcut.rows[1]) = 8

====
